---- MODULE Spec2Model ----
(***************************************************************************)
(* Coral-Fuzzy: the resilient request execution components.                *)
(*   CircuitBreakerHandler   src/src/utils/circuit-breaker.ts              *)
(*   RateLimitHandler        src/src/utils/rate-limit.ts  (lines 1-138)    *)
(*   RequestPool             src/src/utils/rate-limit.ts  (lines 139-287)  *)
(*   BatchHandler            src/src/utils/batch.ts       (lines 1-150)    *)
(*   RetryHandler            src/src/utils/retry.ts                        *)
(* Each component is a state machine over its own fields; JavaScript runs  *)
(* one task at a time, so every action is the synchronous stretch of code  *)
(* between two suspension points (await, timer).  Time is the integer      *)
(* clock `now` (Date.now()), advanced by Tick.                             *)
(***************************************************************************)
EXTENDS Integers, Sequences, FiniteSets, TLC

VARIABLES
  now,              \* Date.now()
  \* ---- CircuitBreakerHandler
  cbConfig,         \* this.config: failureThreshold, resetTimeout
  state,            \* this.state
  failureCount,     \* this.failureCount
  lastFailureTime,  \* this.lastFailureTime
  successCount,     \* this.successCount
  cbCalls,          \* per caller: whether its request function is in flight
  cbLast,           \* the latest event: caller, kind, the result delivered, and
                    \* the breaker state it found
  cbStreak,         \* history: consecutive failed calls, by kind of failure
  cbHalf,           \* history: successes seen since HALF_OPEN was entered
  \* ---- RateLimitHandler
  rlConfig,         \* this.config: maxRequests, perMilliseconds, maxConcurrent
  requestTimestamps,\* this.requestTimestamps
  activeRequests,   \* this.activeRequests
  queue,            \* this.queue
  processingQueue,  \* this.processingQueue
  rlLoop,           \* where processQueue() is suspended: pc, timer, current request
  rlCalls,          \* per caller: the promise returned by execute()
  rlAdmitted,       \* history: the admissions of the last perMilliseconds
  rlTokens,         \* the callers whose cancellation signal fired while they queued
  \* ---- RequestPool
  poolConfig,       \* this.config: maxConcurrent, requestsPerSecond
  poolActive,       \* this.activeRequests (a Set of promises)
  poolQueue,        \* this.queue
  poolProcessing,   \* this.processingQueue
  poolTimestamps,   \* this.requestTimestamps
  poolLoop,         \* where processQueue() is suspended: pc, current entry
  poolCalls,        \* per caller: the promise returned by execute()
  \* ---- BatchHandler
  batchConfig,      \* maxBatchSize, batchDelay
  batch,            \* this.batch
  batchTimeout,     \* this.batchTimeout: the pending timer, if any
  batchUp,          \* the upstream calls made by processBatch, by first caller
  batchCalls,       \* per caller: config and the promise returned by execute()
  \* ---- RetryHandler (one call of execute)
  retryConfig,      \* maxRetries, retryDelay
  retryCount,       \* the local retryCount
  retryPc,          \* where the call is: idle, attempt, delay, resolved, rejected
  retryLeft,        \* ticks left of the delay being awaited
  retryLog,         \* the errors of the attempts so far, in order
  retryResult,      \* what the caller got
  retryAttempts,    \* history: how often the request function was invoked
  retryWaited,      \* history: the ticks waited after each failed attempt
  \* ---- CoralFuzzy (the assembled client)
  pipeCalls,        \* per call of request(): where it is, the stages it has
                    \* entered, and what the caller got
  \* ---- which of the components above the clients are calling
  focus,
  \* ---- history: the wrapped call that failed in the latest step, if any
  settled

cbVars == <<cbConfig, state, failureCount, lastFailureTime, successCount,
            cbCalls, cbLast, cbStreak, cbHalf>>
rlVars == <<rlConfig, requestTimestamps, activeRequests, queue, processingQueue,
            rlLoop, rlCalls, rlAdmitted, rlTokens>>
poolVars == <<poolConfig, poolActive, poolQueue, poolProcessing, poolTimestamps,
              poolLoop, poolCalls>>
batchVars == <<batchConfig, batch, batchTimeout, batchUp, batchCalls>>
pipeVars == <<pipeCalls>>
retryVars == <<retryConfig, retryCount, retryPc, retryLeft, retryLog, retryResult,
               retryAttempts, retryWaited>>

(***************************************************************************)
(* Bounds of the model.                                                    *)
(***************************************************************************)
MaxTime == 2
MaxThreshold == 2
MaxResetTimeout == 1
MaxFailureCount == 3
NumCbCalls == 2
NumRlCalls == 3
MaxPriority == 1
MaxRequestsBound == 2
MaxWindow == 1
MaxConcurrentBound == 1
NumPoolCalls == 3
MaxPoolConcurrent == 2
NumBatchCalls == 2
MaxBatchSizeBound == 2
MaxBatchDelay == 1
MaxRetriesBound == 2
MaxRetryDelay == 2
NumPipeCalls == 2

None == "none"

Min(a, b) == IF a < b THEN a ELSE b

Tick ==
  /\ now < MaxTime
  /\ now' = now + 1

(***************************************************************************)
(* Values exchanged with the wrapped request function.                     *)
(*   a response carries a status; an error carries an optional             *)
(*   response.status and an optional code.                                 *)
(***************************************************************************)
Statuses == {200, 404, 500}
Responses == [status : Statuses]

PlainError      == [response |-> None, code |-> None, msg |-> "Error"]
Http500Error    == [response |-> None, code |-> None, msg |-> "HTTP 500"]
Status404Error  == [response |-> "404", code |-> None, msg |-> "Error"]
Status500Error  == [response |-> "500", code |-> None, msg |-> "Error"]
RefusedError    == [response |-> None, code |-> "ECONNREFUSED", msg |-> "Error"]
ResetError      == [response |-> None, code |-> "ECONNRESET", msg |-> "Error"]
RequestErrors == {PlainError, Status404Error, Status500Error, RefusedError, ResetError}
CircuitOpenError == [response |-> None, code |-> None, msg |-> "Circuit breaker is OPEN"]

\* config.monitoredErrors ?? [500, 502, 503, 504, 'ECONNREFUSED', 'ETIMEDOUT']
monitoredErrors == {"500", "502", "503", "504", "ECONNREFUSED", "ETIMEDOUT"}

(***************************************************************************)
(* CircuitBreakerHandler                                                   *)
(***************************************************************************)
CbConfigs == [failureThreshold : 1..MaxThreshold, resetTimeout : 1..MaxResetTimeout]

Breaker == [state |-> state, failureCount |-> failureCount,
            lastFailureTime |-> lastFailureTime, successCount |-> successCount]

\* isOpen(): whether the call is refused; an OPEN breaker whose reset timeout
\* has elapsed becomes HALF_OPEN as a side effect.
isOpenResult(b, t) ==
  b.state = "OPEN" /\ ~(t - b.lastFailureTime >= cbConfig.resetTimeout)

isOpenEffect(b, t) ==
  IF b.state = "OPEN" /\ t - b.lastFailureTime >= cbConfig.resetTimeout
  THEN [b EXCEPT !.state = "HALF_OPEN"]
  ELSE b

reset(b) ==
  [b EXCEPT !.failureCount = 0, !.successCount = 0, !.state = "CLOSED"]

\* mutant: one success in HALF_OPEN closes the breaker
onSuccess_CloseAtOnce(b) ==
  IF b.state = "HALF_OPEN" THEN reset(b) ELSE b

\* mutant: a success while CLOSED forgets the failures counted so far
onSuccess_ForgetWhenClosed(b) ==
  IF b.state = "HALF_OPEN"
  THEN IF b.successCount + 1 >= 2
       THEN reset([b EXCEPT !.successCount = @ + 1])
       ELSE [b EXCEPT !.successCount = @ + 1]
  ELSE [b EXCEPT !.failureCount = 0]

onSuccess(b) ==
  IF b.state = "HALF_OPEN"
  THEN IF b.successCount + 1 >= 2
       THEN reset([b EXCEPT !.successCount = @ + 1])
       ELSE [b EXCEPT !.successCount = @ + 1]
  ELSE b

shouldCountError(error) ==
  IF error.response # None THEN error.response \in monitoredErrors
  ELSE IF error.code # None THEN error.code \in monitoredErrors
  ELSE TRUE

\* mutant: a counted failure leaves lastFailureTime as it was
onFailure_KeepTime(b, error, t) ==
  IF ~shouldCountError(error) THEN b
  ELSE LET c == [b EXCEPT !.failureCount = @ + 1,
                          !.successCount = 0]
       IN IF c.state = "CLOSED" /\ c.failureCount >= cbConfig.failureThreshold
          THEN [c EXCEPT !.state = "OPEN"]
          ELSE IF c.state = "HALF_OPEN"
          THEN [c EXCEPT !.state = "OPEN"]
          ELSE c

\* mutant: the threshold comparison is strict
onFailure_StrictThreshold(b, error, t) ==
  IF ~shouldCountError(error) THEN b
  ELSE LET c == [b EXCEPT !.failureCount = @ + 1,
                          !.lastFailureTime = t,
                          !.successCount = 0]
       IN IF c.state = "CLOSED" /\ c.failureCount > cbConfig.failureThreshold
          THEN [c EXCEPT !.state = "OPEN"]
          ELSE IF c.state = "HALF_OPEN"
          THEN [c EXCEPT !.state = "OPEN"]
          ELSE c

\* mutant: a failure in HALF_OPEN is counted but does not reopen
onFailure_NoReopen(b, error, t) ==
  IF ~shouldCountError(error) THEN b
  ELSE LET c == [b EXCEPT !.failureCount = @ + 1,
                          !.lastFailureTime = t,
                          !.successCount = 0]
       IN IF c.state = "CLOSED" /\ c.failureCount >= cbConfig.failureThreshold
          THEN [c EXCEPT !.state = "OPEN"]
          ELSE c

onFailure(b, error, t) ==
  IF ~shouldCountError(error) THEN b
  ELSE LET c == [b EXCEPT !.failureCount = @ + 1,
                          !.lastFailureTime = t,
                          !.successCount = 0]
       IN IF c.state = "CLOSED" /\ c.failureCount >= cbConfig.failureThreshold
          THEN [c EXCEPT !.state = "OPEN"]
          ELSE IF c.state = "HALF_OPEN"
          THEN [c EXCEPT !.state = "OPEN"]
          ELSE c

\* mutant: no response is taken for an error
isErrorResponse_Never(response) == FALSE

isErrorResponse(response) == response.status >= 500

SetBreaker(b) ==
  /\ state' = b.state
  /\ failureCount' = b.failureCount
  /\ lastFailureTime' = b.lastFailureTime
  /\ successCount' = b.successCount

\* history of HALF_OPEN episodes: total and consecutive successes since entry
HalfAfter(b0, b1, kind) ==
  IF b0.state # "HALF_OPEN" /\ b1.state = "HALF_OPEN"
  THEN [total |-> 0, consec |-> 0]
  ELSE IF b0.state = "HALF_OPEN" /\ kind = "success"
  THEN [total |-> Min(cbHalf.total + 1, 2), consec |-> Min(cbHalf.consec + 1, 2)]
  ELSE IF kind = "failure"
  THEN [cbHalf EXCEPT !.consec = 0]
  ELSE cbHalf

\* history of failed calls in a row (saturating at the threshold)
StreakAfter(counts) ==
  [any |-> Min(cbStreak.any + 1, cbConfig.failureThreshold),
   counted |-> IF counts THEN Min(cbStreak.counted + 1, cbConfig.failureThreshold)
               ELSE cbStreak.counted]

CbInit(configs) ==
  /\ cbConfig \in configs
  /\ state = "CLOSED"
  /\ failureCount = 0
  /\ lastFailureTime = 0
  /\ successCount = 0
  /\ cbCalls = [c \in 1..NumCbCalls |-> "idle"]
  /\ cbLast = [call |-> 0, kind |-> "init", result |-> None, from |-> "CLOSED"]
  /\ cbStreak = [any |-> 0, counted |-> 0]
  /\ cbHalf = [total |-> 0, consec |-> 0]

\* a variant of execute() that hands the circuit-open error to onFailure()
CbExecute_CountRefusal(c) ==
  /\ cbCalls[c] = "idle"
  /\ IF isOpenResult(Breaker, now)
     THEN /\ failureCount < MaxFailureCount
          /\ SetBreaker(onFailure(Breaker, CircuitOpenError, now))
          /\ cbHalf' = cbHalf
          /\ cbLast' = [call |-> c, kind |-> "refused", result |-> CircuitOpenError, from |-> state]
          /\ UNCHANGED cbCalls
     ELSE /\ LET b == isOpenEffect(Breaker, now)
             IN /\ SetBreaker(b)
                /\ cbHalf' = HalfAfter(Breaker, b, "admit")
          /\ cbLast' = [call |-> c, kind |-> "invoked", result |-> None, from |-> state]
          /\ cbCalls' = [cbCalls EXCEPT ![c] = "inflight"]
  /\ UNCHANGED <<now, cbConfig, cbStreak>>

\* execute(), up to the first await: isOpen() and either the throw or the
\* invocation of the request function.
CbExecute(c) ==
  /\ cbCalls[c] = "idle"
  /\ LET b == isOpenEffect(Breaker, now)
     IN /\ SetBreaker(b)
        /\ cbHalf' = HalfAfter(Breaker, b, "admit")
  /\ IF isOpenResult(Breaker, now)
     THEN /\ cbLast' = [call |-> c, kind |-> "refused", result |-> CircuitOpenError, from |-> state]
          /\ UNCHANGED cbCalls
     ELSE /\ cbLast' = [call |-> c, kind |-> "invoked", result |-> None, from |-> state]
          /\ cbCalls' = [cbCalls EXCEPT ![c] = "inflight"]
  /\ UNCHANGED <<now, cbConfig, cbStreak>>

\* the request function resolved: executeWithTimeout turns a status >= 500
\* into Error('HTTP <status>'), otherwise onSuccess() and the response is returned
CbRequestResolves(c, response) ==
  /\ cbCalls[c] \in {"inflight", "aborted"}
  /\ cbCalls' = [cbCalls EXCEPT ![c] = "idle"]
  /\ IF isErrorResponse(response)
     THEN /\ failureCount < MaxFailureCount
          /\ LET b == onFailure(Breaker, Http500Error, now)
             IN /\ SetBreaker(b)
                /\ cbHalf' = HalfAfter(Breaker, b, "failure")
          /\ cbLast' = [call |-> c, kind |-> "rejected", result |-> Http500Error, from |-> state]
          /\ cbStreak' = StreakAfter(shouldCountError(Http500Error))
     ELSE /\ LET b == onSuccess(Breaker)
             IN /\ SetBreaker(b)
                /\ cbHalf' = HalfAfter(Breaker, b, "success")
          /\ cbLast' = [call |-> c, kind |-> "resolved", result |-> response, from |-> state]
          /\ cbStreak' = [any |-> 0, counted |-> 0]
  /\ UNCHANGED <<now, cbConfig>>

\* the request function rejected: onFailure(error) and the error is rethrown
CbRequestRejects(c, error) ==
  /\ cbCalls[c] \in {"inflight", "aborted"}
  /\ cbCalls' = [cbCalls EXCEPT ![c] = "idle"]
  /\ failureCount < MaxFailureCount
  /\ LET b == onFailure(Breaker, error, now)
     IN /\ SetBreaker(b)
        /\ cbHalf' = HalfAfter(Breaker, b, "failure")
  /\ cbLast' = [call |-> c, kind |-> "rejected", result |-> error, from |-> state]
  /\ cbStreak' = StreakAfter(shouldCountError(error))
  /\ UNCHANGED <<now, cbConfig>>

\* executeWithTimeout(): the timer set for requestTimeout fires while the
\* request is awaited; its callback is controller.abort(), which marks the
\* signal handed to the request and touches nothing else. requestTimeout is
\* any positive duration, so the timer may fire at any moment of the wait.
CbTimeoutFires(c) ==
  /\ cbCalls[c] = "inflight"
  /\ cbCalls' = [cbCalls EXCEPT ![c] = "aborted"]
  /\ UNCHANGED <<now, cbConfig, state, failureCount, lastFailureTime, successCount,
                 cbLast, cbStreak, cbHalf>>

\* getStats() evaluates isOpen()
CbGetStats ==
  /\ LET b == isOpenEffect(Breaker, now)
     IN /\ SetBreaker(b)
        /\ cbHalf' = HalfAfter(Breaker, b, "read")
  /\ cbLast' = [call |-> 0, kind |-> "read", result |-> None, from |-> state]
  /\ UNCHANGED <<now, cbConfig, cbCalls, cbStreak>>

(***************************************************************************)
(* The CircuitBreakerHandler of cache.ts, whose entry point is             *)
(* executeRequest.  It keeps its state in the same fields: failureCount    *)
(* stands for this.failures; successCount is not used.  The statistics     *)
(* counters (totalRequests and the like) are left out.                     *)
(***************************************************************************)
\* this.lastFailureTime = null
NullTime == -1

RequestTimeoutError == [response |-> None, code |-> None, msg |-> "Request timeout"]

\* isOpen(): an OPEN breaker with a recorded failure time that lies more than
\* resetTimeout back becomes HALF_OPEN and lets the call pass. A recorded time
\* is a value of Date.now(), hence truthy.
isOpen2Passes(b, t) ==
  b.state = "OPEN" /\ b.lastFailureTime # NullTime
    /\ t - b.lastFailureTime > cbConfig.resetTimeout

isOpen2Result(b, t) == b.state = "OPEN" /\ ~isOpen2Passes(b, t)

isOpen2Effect(b, t) ==
  IF isOpen2Passes(b, t) THEN [b EXCEPT !.state = "HALF_OPEN"] ELSE b

\* a variant of reset() that keeps the failures counted so far
reset2_KeepFailures(b) ==
  [b EXCEPT !.state = "CLOSED", !.lastFailureTime = NullTime]

\* reset()
reset2(b) ==
  [b EXCEPT !.state = "CLOSED", !.failureCount = 0, !.lastFailureTime = NullTime]

\* onSuccess()
onSuccess2(b) == IF b.state = "HALF_OPEN" THEN reset2(b) ELSE b

\* trip()
trip2(b) == IF b.state # "OPEN" THEN [b EXCEPT !.state = "OPEN"] ELSE b

\* onFailure(error)
onFailure2(b, error, t) ==
  LET c == [b EXCEPT !.failureCount = @ + 1, !.lastFailureTime = t]
  IN IF c.failureCount >= cbConfig.failureThreshold THEN trip2(c) ELSE c

Cb2Init(configs) ==
  /\ cbConfig \in configs
  /\ state = "CLOSED"
  /\ failureCount = 0
  /\ lastFailureTime = NullTime
  /\ successCount = 0
  /\ cbCalls = [c \in 1..NumCbCalls |-> "idle"]
  /\ cbLast = [call |-> 0, kind |-> "init", result |-> None, from |-> "CLOSED"]
  /\ cbStreak = [any |-> 0, counted |-> 0]
  /\ cbHalf = [total |-> 0, consec |-> 0]

\* executeRequest() up to its await: isOpen(), then the throw or the
\* invocation of the request function raced against the timer. A call that
\* isOpen() let pass by half-opening the breaker is marked as the probe.
Cb2ExecuteRequest(c) ==
  /\ cbCalls[c] = "idle"
  /\ SetBreaker(isOpen2Effect(Breaker, now))
  /\ IF isOpen2Result(Breaker, now)
     THEN /\ cbLast' = [call |-> c, kind |-> "refused", result |-> CircuitOpenError, from |-> state]
          /\ UNCHANGED cbCalls
     ELSE /\ cbLast' = [call |-> c, kind |-> "invoked", result |-> None, from |-> state]
          /\ cbCalls' = [cbCalls EXCEPT ![c] =
               IF isOpen2Passes(Breaker, now) THEN "probe" ELSE "inflight"]
  /\ UNCHANGED <<now, cbConfig, cbStreak, cbHalf>>

\* the request function won the race by resolving: onSuccess(), return response
Cb2RequestResolves(c, response) ==
  /\ cbCalls[c] \in {"inflight", "probe"}
  /\ cbCalls' = [cbCalls EXCEPT ![c] = "idle"]
  /\ SetBreaker(onSuccess2(Breaker))
  /\ cbLast' = [call |-> c, kind |-> "resolved", result |-> response, from |-> state]
  /\ UNCHANGED <<now, cbConfig, cbStreak, cbHalf>>

\* the request function won the race by rejecting: onFailure(error), throw error
Cb2RequestRejects(c, error) ==
  /\ cbCalls[c] \in {"inflight", "probe"}
  /\ failureCount < MaxFailureCount
  /\ cbCalls' = [cbCalls EXCEPT ![c] = "idle"]
  /\ SetBreaker(onFailure2(Breaker, error, now))
  /\ cbLast' = [call |-> c, kind |-> "rejected", result |-> error, from |-> state]
  /\ UNCHANGED <<now, cbConfig, cbStreak, cbHalf>>

\* the timer won the race: it rejects with Error('Request timeout'), which is
\* handled as a failure; what the request function does later is ignored.
\* requestTimeout is any positive duration.
Cb2TimeoutFires(c) ==
  /\ cbCalls[c] \in {"inflight", "probe"}
  /\ failureCount < MaxFailureCount
  /\ cbCalls' = [cbCalls EXCEPT ![c] = "idle"]
  /\ SetBreaker(onFailure2(Breaker, RequestTimeoutError, now))
  /\ cbLast' = [call |-> c, kind |-> "rejected", result |-> RequestTimeoutError, from |-> state]
  /\ UNCHANGED <<now, cbConfig, cbStreak, cbHalf>>

\* the interval set by startHealthCheck() fires and healthCheck() reports
\* health (the default does): an OPEN breaker becomes HALF_OPEN
Cb2HealthCheck ==
  /\ state = "OPEN"
  /\ state' = "HALF_OPEN"
  /\ cbLast' = [call |-> 0, kind |-> "health", result |-> None, from |-> state]
  /\ UNCHANGED <<now, cbConfig, failureCount, lastFailureTime, successCount,
                 cbCalls, cbStreak, cbHalf>>

(***************************************************************************)
(* RateLimitHandler                                                        *)
(***************************************************************************)
\* await this.delay(100), in clock ticks of 100 ms
PollDelay == 1

RlConfigs == [maxRequests : 1..MaxRequestsBound,
              perMilliseconds : 1..MaxWindow,
              maxConcurrent : 1..MaxConcurrentBound]

\* no request held by the loop (nextRequest unset)
NoRequest == [id |-> 0, priority |-> 0]

RECURSIVE InsertByPriority(_, _)
\* x placed behind every entry whose priority is not lower: the comparator
\* (a, b) => b.priority - a.priority under a stable sort
InsertByPriority(x, sorted) ==
  IF sorted = <<>> THEN <<x>>
  ELSE IF Head(sorted).priority >= x.priority
       THEN <<Head(sorted)>> \o InsertByPriority(x, Tail(sorted))
       ELSE <<x>> \o sorted

RECURSIVE SortFrom(_, _)
SortFrom(q, acc) ==
  IF q = <<>> THEN acc ELSE SortFrom(Tail(q), InsertByPriority(Head(q), acc))

\* mutant: the queue is left in arrival order
sortQueue_Unsorted(q) == q

\* this.queue.sort((a, b) => b.priority - a.priority)
sortQueue(q) == SortFrom(q, <<>>)

\* requestTimestamps.filter(timestamp => now - timestamp < perMilliseconds)
cleanupTimestamps(ts, t, window) ==
  SelectSeq(ts, LAMBDA stamp : t - stamp < window)

\* mutant: the window admits one request too many
canProcessRequest_OneMore(ts, act, t) ==
  /\ act < rlConfig.maxConcurrent
  /\ Len(cleanupTimestamps(ts, t, rlConfig.perMilliseconds)) <= rlConfig.maxRequests

canProcessRequest(ts, act, t) ==
  /\ act < rlConfig.maxConcurrent
  /\ Len(cleanupTimestamps(ts, t, rlConfig.perMilliseconds)) < rlConfig.maxRequests

RlState == [queue |-> queue, ts |-> requestTimestamps, act |-> activeRequests,
            processing |-> processingQueue, loop |-> rlLoop, calls |-> rlCalls,
            log |-> rlAdmitted]

\* a variant that leaves the loop instead of polling when no call can be
\* admitted
processQueueLoop_NoPoll(r, t) ==
  IF r.queue = <<>> \/ ~canProcessRequest(r.ts, r.act, t)
  THEN [r EXCEPT !.processing = FALSE,
                 !.ts = cleanupTimestamps(r.ts, t, rlConfig.perMilliseconds),
                 !.loop = [pc |-> "idle", wake |-> 0, cur |-> NoRequest]]
  ELSE LET sorted == sortQueue(r.queue)
           nextRequest == Head(sorted)
       IN [r EXCEPT !.queue = Tail(sorted),
                    !.act = @ + 1,
                    !.ts = Append(cleanupTimestamps(r.ts, t, rlConfig.perMilliseconds), t),
                    !.loop = [pc |-> "await", wake |-> 0, cur |-> nextRequest],
                    !.calls[nextRequest.id] = "inflight",
                    !.log = Append(@, [at |-> t, cleared |-> FALSE])]

\* processQueue() from the test of its while loop to its next await (or exit)
processQueueLoop(r, t) ==
  IF r.queue = <<>>
  THEN [r EXCEPT !.processing = FALSE,
                 !.ts = cleanupTimestamps(r.ts, t, rlConfig.perMilliseconds),
                 !.loop = [pc |-> "idle", wake |-> 0, cur |-> NoRequest]]
  ELSE IF ~canProcessRequest(r.ts, r.act, t)
  THEN [r EXCEPT !.ts = cleanupTimestamps(r.ts, t, rlConfig.perMilliseconds),
                 !.loop = [pc |-> "delay", wake |-> t + PollDelay, cur |-> NoRequest]]
  ELSE LET sorted == sortQueue(r.queue)
           nextRequest == Head(sorted)
       IN [r EXCEPT !.queue = Tail(sorted),
                    !.act = @ + 1,
                    !.ts = Append(cleanupTimestamps(r.ts, t, rlConfig.perMilliseconds), t),
                    !.loop = [pc |-> "await", wake |-> 0, cur |-> nextRequest],
                    !.calls[nextRequest.id] = "inflight",
                    !.log = Append(@, [at |-> t, cleared |-> FALSE])]

\* processQueue(): a second caller returns at once
processQueue(r, t) ==
  IF r.processing THEN r ELSE processQueueLoop([r EXCEPT !.processing = TRUE], t)

SetRl(r) ==
  /\ queue' = r.queue
  /\ requestTimestamps' = r.ts
  /\ activeRequests' = r.act
  /\ processingQueue' = r.processing
  /\ rlLoop' = r.loop
  /\ rlCalls' = r.calls
  /\ rlAdmitted' = r.log

RlInit(configs) ==
  /\ rlConfig \in configs
  /\ requestTimestamps = <<>>
  /\ activeRequests = 0
  /\ queue = <<>>
  /\ processingQueue = FALSE
  /\ rlLoop = [pc |-> "idle", wake |-> 0, cur |-> NoRequest]
  /\ rlCalls = [c \in 1..NumRlCalls |-> "new"]
  /\ rlAdmitted = <<>>
  /\ rlTokens = {}

\* callers are numbered in the order in which they call execute()
RlNextCaller(c) ==
  /\ rlCalls[c] = "new"
  /\ \A d \in 1..NumRlCalls : d < c => rlCalls[d] # "new"

\* execute(request, config) with config.rateLimit !== false
RlExecute(c, priority) ==
  /\ RlNextCaller(c)
  /\ SetRl(processQueue(
       [RlState EXCEPT !.queue = Append(@, [id |-> c, priority |-> priority]),
                       !.calls[c] = "queued"], now))
  /\ UNCHANGED <<now, rlConfig, rlTokens>>

\* a variant that counts the call that bypasses the limiter
RlExecuteUnlimited_Counted(c) ==
  /\ RlNextCaller(c)
  /\ rlCalls' = [rlCalls EXCEPT ![c] = "bypass"]
  /\ activeRequests' = activeRequests + 1
  /\ requestTimestamps' = Append(requestTimestamps, now)
  /\ UNCHANGED <<now, rlConfig, queue, processingQueue, rlLoop, rlAdmitted, rlTokens>>

\* execute(request, config) with config.rateLimit === false
RlExecuteUnlimited(c) ==
  /\ RlNextCaller(c)
  /\ rlCalls' = [rlCalls EXCEPT ![c] = "bypass"]
  /\ UNCHANGED <<now, rlConfig, requestTimestamps, activeRequests, queue,
                 processingQueue, rlLoop, rlAdmitted, rlTokens>>

\* the timer of delay(100) fires and the loop goes round
RlDelayElapsed ==
  /\ rlLoop.pc = "delay"
  /\ now >= rlLoop.wake
  /\ SetRl(processQueueLoop(RlState, now))
  /\ UNCHANGED <<now, rlConfig, rlTokens>>

\* a variant whose catch block resolves the caller instead of rejecting it
RlRequestSettles_Swallow(ok) ==
  /\ rlLoop.pc = "await"
  /\ SetRl(processQueueLoop(
       [RlState EXCEPT !.calls[rlLoop.cur.id] = "resolved", !.act = @ - 1], now))
  /\ UNCHANGED <<now, rlConfig, rlTokens>>

\* a variant that decrements activeRequests on the success path only
RlRequestSettles_LeakOnFailure(ok) ==
  /\ rlLoop.pc = "await"
  /\ SetRl(processQueueLoop(
       [RlState EXCEPT !.calls[rlLoop.cur.id] = IF ok THEN "resolved" ELSE "rejected",
                       !.act = IF ok THEN @ - 1 ELSE @], now))
  /\ UNCHANGED <<now, rlConfig, rlTokens>>

\* the awaited request settles: resolve or reject, activeRequests--, loop
RlRequestSettles(ok) ==
  /\ rlLoop.pc = "await"
  /\ SetRl(processQueueLoop(
       [RlState EXCEPT !.calls[rlLoop.cur.id] = IF ok THEN "resolved" ELSE "rejected",
                       !.act = @ - 1], now))
  /\ UNCHANGED <<now, rlConfig, rlTokens>>

\* a request that bypassed the limiter settles
RlUnlimitedSettles(c, ok) ==
  /\ rlCalls[c] = "bypass"
  /\ rlCalls' = [rlCalls EXCEPT ![c] = IF ok THEN "resolved" ELSE "rejected"]
  /\ UNCHANGED <<now, rlConfig, requestTimestamps, activeRequests, queue,
                 processingQueue, rlLoop, rlAdmitted, rlTokens>>

\* clear()
RlClear ==
  /\ rlCalls' = [c \in 1..NumRlCalls |->
       IF \E i \in DOMAIN queue : queue[i].id = c THEN "cleared" ELSE rlCalls[c]]
  /\ rlAdmitted' = [i \in DOMAIN rlAdmitted |-> [rlAdmitted[i] EXCEPT !.cleared = TRUE]]
  /\ queue' = <<>>
  /\ requestTimestamps' = <<>>
  /\ activeRequests' = 0
  /\ UNCHANGED <<now, rlConfig, processingQueue, rlLoop, rlTokens>>

\* getStats() purges the window
RlGetStats ==
  /\ requestTimestamps' = cleanupTimestamps(requestTimestamps, now, rlConfig.perMilliseconds)
  /\ UNCHANGED <<now, rlConfig, activeRequests, queue, processingQueue, rlLoop,
                 rlCalls, rlAdmitted, rlTokens>>

\* time passes; admissions older than the window leave the history
RlTick ==
  /\ Tick
  /\ rlAdmitted' = SelectSeq(rlAdmitted,
                      LAMBDA a : now + 1 - a.at < rlConfig.perMilliseconds)
  /\ UNCHANGED <<rlConfig, requestTimestamps, activeRequests, queue, processingQueue,
                 rlLoop, rlCalls, rlTokens>>

\* time passes at the end of the modelled range: the origin of the clock moves
\* on by one tick instead of the clock, so every recorded time gets one tick
\* older. The handler only ever uses differences to Date.now(); a time that
\* reaches 0 is at least MaxTime old, which is beyond every window modelled.
RlClockShift ==
  /\ now = MaxTime
  /\ requestTimestamps' = [i \in DOMAIN requestTimestamps |->
                             IF requestTimestamps[i] > 0 THEN requestTimestamps[i] - 1 ELSE 0]
  /\ rlLoop' = [rlLoop EXCEPT !.wake = IF @ > 0 THEN @ - 1 ELSE 0]
  /\ rlAdmitted' = SelectSeq(
       [i \in DOMAIN rlAdmitted |->
          [rlAdmitted[i] EXCEPT !.at = IF @ > 0 THEN @ - 1 ELSE 0]],
       LAMBDA a : now - a.at < rlConfig.perMilliseconds)
  /\ UNCHANGED <<now, rlConfig, activeRequests, queue, processingQueue, rlCalls,
                 rlTokens>>

\* a caller whose call has settled calls execute() again later on
RlNewCaller(c) ==
  /\ rlCalls[c] \in {"resolved", "rejected"}
  /\ rlCalls' = [rlCalls EXCEPT ![c] = "new"]
  /\ UNCHANGED <<now, rlConfig, requestTimestamps, activeRequests, queue,
                 processingQueue, rlLoop, rlAdmitted, rlTokens>>

\* the AbortSignal a caller passed in config.signal fires while the entry
\* waits in the queue: the handler has no listener on it, so nothing of the
\* handler changes
RlSignalFires(c) ==
  /\ rlCalls[c] = "queued"
  /\ c \notin rlTokens
  /\ rlTokens' = rlTokens \cup {c}
  /\ UNCHANGED <<now, rlConfig, requestTimestamps, activeRequests, queue,
                 processingQueue, rlLoop, rlCalls, rlAdmitted>>

(***************************************************************************)
(* RequestPool                                                             *)
(***************************************************************************)
\* the window of cleanupTimestamps, 1000 ms, in clock ticks of 500 ms
PoolWindow == 2

PoolConfigs == [maxConcurrent : 1..MaxPoolConcurrent,
                requestsPerSecond : 1..MaxRequestsBound]

\* the promise of the stand-in request made for queue entry e
StandIn(e) == 0 - e.id

canProcessImmediately(active, ts, t) ==
  /\ Cardinality(active) < poolConfig.maxConcurrent
  /\ Len(cleanupTimestamps(ts, t, PoolWindow)) < poolConfig.requestsPerSecond

PoolState == [queue |-> poolQueue, ts |-> poolTimestamps, active |-> poolActive,
              processing |-> poolProcessing, loop |-> poolLoop, calls |-> poolCalls]

\* processQueue() from the test of its while loop to its await (or exit): the
\* entry taken from the queue is run through processRequest() with a request
\* made on the spot, which returns a response of status 200 and data null
poolProcessQueueLoop(r, t) ==
  IF r.queue # <<>> /\ canProcessImmediately(r.active, r.ts, t)
  THEN LET sorted == sortQueue(r.queue)
           nextRequest == Head(sorted)
       IN [r EXCEPT !.queue = Tail(sorted),
                    !.ts = Append(cleanupTimestamps(r.ts, t, PoolWindow), t),
                    !.active = @ \cup {StandIn(nextRequest)},
                    !.processing = TRUE,
                    !.loop = [pc |-> "await", cur |-> nextRequest]]
  ELSE [r EXCEPT !.ts = IF r.queue # <<>>
                        THEN cleanupTimestamps(r.ts, t, PoolWindow) ELSE @,
                 !.processing = FALSE,
                 !.loop = [pc |-> "idle", cur |-> NoRequest]]

poolProcessQueue(r, t) ==
  IF r.processing \/ r.queue = <<>> THEN r ELSE poolProcessQueueLoop(r, t)

SetPool(r) ==
  /\ poolQueue' = r.queue
  /\ poolTimestamps' = r.ts
  /\ poolActive' = r.active
  /\ poolProcessing' = r.processing
  /\ poolLoop' = r.loop
  /\ poolCalls' = r.calls

PoolInit(configs) ==
  /\ poolConfig \in configs
  /\ poolActive = {}
  /\ poolQueue = <<>>
  /\ poolProcessing = FALSE
  /\ poolTimestamps = <<>>
  /\ poolLoop = [pc |-> "idle", cur |-> NoRequest]
  /\ poolCalls = [c \in 1..NumPoolCalls |-> [st |-> "new", invoked |-> FALSE]]

PoolNextCaller(c) ==
  /\ poolCalls[c].st = "new"
  /\ \A d \in 1..NumPoolCalls : d < c => poolCalls[d].st # "new"

\* execute(request, priority): processRequest(request) when there is room,
\* otherwise an entry {config: {}, resolve, reject, priority} joins the queue
PoolExecute(c, priority) ==
  /\ PoolNextCaller(c)
  /\ IF canProcessImmediately(poolActive, poolTimestamps, now)
     THEN SetPool([PoolState EXCEPT
            !.ts = Append(cleanupTimestamps(@, now, PoolWindow), now),
            !.active = @ \cup {c},
            !.calls[c] = [st |-> "inflight", invoked |-> TRUE]])
     ELSE SetPool(poolProcessQueue([PoolState EXCEPT
            !.ts = cleanupTimestamps(@, now, PoolWindow),
            !.queue = Append(@, [id |-> c, priority |-> priority]),
            !.calls[c].st = "queued"], now))
  /\ UNCHANGED <<now, poolConfig>>

\* processRequest(): the caller's request settles; resolve or reject, then
\* finally { activeRequests.delete(requestPromise); processQueue() }
PoolRequestSettles(c, ok) ==
  /\ poolCalls[c].st = "inflight"
  /\ SetPool(poolProcessQueue([PoolState EXCEPT
       !.calls[c].st = IF ok THEN "resolved" ELSE "rejected",
       !.active = @ \ {c}], now))
  /\ UNCHANGED <<now, poolConfig>>

\* processQueue(): the stand-in request has resolved; its promise leaves
\* activeRequests, the queued caller is resolved with its response, and the
\* loop goes round
PoolStandInSettles ==
  /\ poolLoop.pc = "await"
  /\ SetPool(poolProcessQueueLoop([PoolState EXCEPT
       !.calls[poolLoop.cur.id].st = "resolved",
       !.active = @ \ {StandIn(poolLoop.cur)}], now))
  /\ UNCHANGED <<now, poolConfig>>

\* clear()
PoolClear ==
  /\ poolCalls' = [c \in 1..NumPoolCalls |->
       IF \E i \in DOMAIN poolQueue : poolQueue[i].id = c
       THEN [poolCalls[c] EXCEPT !.st = "cleared"] ELSE poolCalls[c]]
  /\ poolQueue' = <<>>
  /\ poolTimestamps' = <<>>
  /\ poolActive' = {}
  /\ UNCHANGED <<now, poolConfig, poolProcessing, poolLoop>>

\* getStats() purges the window
PoolGetStats ==
  /\ poolTimestamps' = cleanupTimestamps(poolTimestamps, now, PoolWindow)
  /\ UNCHANGED <<now, poolConfig, poolActive, poolQueue, poolProcessing, poolLoop,
                 poolCalls>>

(***************************************************************************)
(* BatchHandler                                                            *)
(***************************************************************************)
\* batch.ts holds two implementations of BatchHandler; impl says which one
\* the handler is an instance of
BatchConfigs == [maxBatchSize : 1..MaxBatchSizeBound, batchDelay : 1..MaxBatchDelay,
                 impl : {"first", "second"}]

\* request configs: method, url = path + '/' + id, and the batch option
RequestConfigs ==
  { [method |-> "GET",  path |-> "/a", id |-> "1", batch |-> TRUE],
    [method |-> "GET",  path |-> "/a", id |-> "2", batch |-> TRUE],
    [method |-> "get",  path |-> "/a", id |-> "1", batch |-> TRUE],
    [method |-> "GET",  path |-> "/b", id |-> "1", batch |-> TRUE],
    [method |-> "POST", path |-> "/a", id |-> "1", batch |-> TRUE],
    [method |-> "patch", path |-> "/a", id |-> "1", batch |-> TRUE],
    [method |-> "GET",  path |-> "/a", id |-> "1", batch |-> FALSE] }

\* String.prototype.toUpperCase on the strings that occur
toUpperCase(str) ==
  CASE str = "get" -> "GET"
    [] str = "post" -> "POST"
    [] str = "patch" -> "PATCH"
    [] str = "/a" -> "/A"
    [] str = "/b" -> "/B"
    [] OTHER -> str

\* `${baseURL}|${url}|${method}`, baseURL being ''; the first implementation
\* puts the whole key in upper case
getBatchKey(config) ==
  IF batchConfig.impl = "first"
  THEN <<"", toUpperCase(config.path), toUpperCase(config.id), toUpperCase(config.method)>>
  ELSE <<"", config.path, config.id, config.method>>

\* first implementation:
\*   config.batch === false || ['POST','PUT','DELETE','PATCH'].includes(method),
\*   method being (config.method ?? 'GET').toUpperCase()
\* second implementation:
\*   config.batch === false || ['POST','PUT','DELETE'].includes(config.method || 'GET')
bypassesBatch(config) ==
  \/ config.batch = FALSE
  \/ IF batchConfig.impl = "first"
     THEN toUpperCase(config.method) \in {"POST", "PUT", "DELETE", "PATCH"}
     ELSE config.method \in {"POST", "PUT", "DELETE"}

\* response.data of the upstream call: not an array, or an array of items
\* whose ids are strings or numbers
Aggregates ==
  { [array |-> FALSE, ids |-> {}],
    [array |-> TRUE, ids |-> {[type |-> "string", v |-> "1"], [type |-> "string", v |-> "2"]}],
    [array |-> TRUE, ids |-> {[type |-> "string", v |-> "1"]}],
    [array |-> TRUE, ids |-> {[type |-> "number", v |-> "1"], [type |-> "number", v |-> "2"]}] }

UpstreamErrors == {PlainError, Status500Error}
BatchClearedError == [response |-> None, code |-> None, msg |-> "Batch handler cleared"]

\* extractResponseData(data, config): the item whose id === the last segment
\* of the url, else the data as it came
extractResponseData(data, config) ==
  IF ~data.array THEN [whole |-> TRUE, id |-> None]
  ELSE IF config.id = "" THEN [whole |-> TRUE, id |-> None]
  ELSE IF [type |-> "string", v |-> config.id] \in data.ids
       THEN [whole |-> FALSE, id |-> config.id]
       ELSE [whole |-> TRUE, id |-> None]

\* groupBatchRequests: the callers of `items` whose key is that of the first
RECURSIVE SameKeyAs(_, _, _)
SameKeyAs(items, key, calls) ==
  IF items = <<>> THEN <<>>
  ELSE IF getBatchKey(calls[Head(items)].config) = key
       THEN <<Head(items)>> \o SameKeyAs(Tail(items), key, calls)
       ELSE SameKeyAs(Tail(items), key, calls)

RECURSIVE OtherKeys(_, _, _)
OtherKeys(items, key, calls) ==
  IF items = <<>> THEN <<>>
  ELSE IF getBatchKey(calls[Head(items)].config) # key
       THEN <<Head(items)>> \o OtherKeys(Tail(items), key, calls)
       ELSE OtherKeys(Tail(items), key, calls)

\* the groups of a batch, each a sequence of callers, in order of first entry
RECURSIVE groupBatchRequests(_, _)
groupBatchRequests(items, calls) ==
  IF items = <<>> THEN <<>>
  ELSE LET key == getBatchKey(calls[Head(items)].config)
       IN <<SameKeyAs(items, key, calls)>>
            \o groupBatchRequests(OtherKeys(items, key, calls), calls)

SeqToSet(q) == {q[i] : i \in DOMAIN q}

\* the outcome of a promise that has not settled
NoResult == [whole |-> FALSE, id |-> None, pending |-> TRUE]

BatchState == [batch |-> batch, timeout |-> batchTimeout, up |-> batchUp,
               calls |-> batchCalls]

\* the timer: whether one is pending, and the ticks left until it fires
NoTimeout == [set |-> FALSE, left |-> 0]

\* processBatch(request): the timer is cancelled, the batch is taken, and one
\* upstream request is made per group
processBatch(r) ==
  LET groups == groupBatchRequests(r.batch, r.calls)
      firsts == {groups[g][1] : g \in DOMAIN groups}
      groupOf(c) == CHOOSE g \in DOMAIN groups : c \in SeqToSet(groups[g])
  IN [r EXCEPT
        !.timeout = NoTimeout,
        !.batch = <<>>,
        !.up = [f \in DOMAIN r.up |->
                  IF f \in firsts
                  THEN [st |-> "pending", size |-> Len(groups[groupOf(f)]), result |-> NoResult]
                  ELSE r.up[f]],
        !.calls = [c \in DOMAIN r.calls |->
                  IF c \in SeqToSet(r.batch)
                  THEN [r.calls[c] EXCEPT !.st = "sent", !.up = groups[groupOf(c)][1]]
                  ELSE r.calls[c]]]

\* a variant that sets no timer for a batch below maxBatchSize
scheduleBatchProcessing_NoTimer(r) ==
  IF Len(r.batch) >= batchConfig.maxBatchSize THEN processBatch(r) ELSE r

\* scheduleBatchProcessing(request)
scheduleBatchProcessing(r) ==
  IF Len(r.batch) >= batchConfig.maxBatchSize THEN processBatch(r)
  ELSE IF ~r.timeout.set
       THEN [r EXCEPT !.timeout = [set |-> TRUE, left |-> batchConfig.batchDelay]]
       ELSE r

\* a variant that rejects only the first entry of the group
rejectItems_FirstOnly(calls, first, error) ==
  [c \in DOMAIN calls |->
     IF calls[c].st = "sent" /\ c = first
     THEN [calls[c] EXCEPT !.st = "rejected", !.result = error]
     ELSE calls[c]]

\* items.forEach(item => item.reject(error))
rejectItems(calls, first, error) ==
  [c \in DOMAIN calls |->
     IF calls[c].st = "sent" /\ calls[c].up = first
     THEN [calls[c] EXCEPT !.st = "rejected", !.result = error]
     ELSE calls[c]]

\* items.forEach(item => item.resolve({...response, data: extractResponseData(..)}))
resolveItems(calls, first, data) ==
  [c \in DOMAIN calls |->
     IF calls[c].st = "sent" /\ calls[c].up = first
     THEN [calls[c] EXCEPT !.st = "resolved",
                           !.result = extractResponseData(data, calls[c].config)]
     ELSE calls[c]]

SetBatch(r) ==
  /\ batch' = r.batch
  /\ batchTimeout' = r.timeout
  /\ batchUp' = r.up
  /\ batchCalls' = r.calls

NoConfig == [method |-> "GET", path |-> "", id |-> "", batch |-> TRUE]

BatchInit(configs) ==
  /\ batchConfig \in configs
  /\ batch = <<>>
  /\ batchTimeout = NoTimeout
  /\ batchUp = [c \in 1..NumBatchCalls |-> [st |-> "none", size |-> 0, result |-> NoResult]]
  /\ batchCalls = [c \in 1..NumBatchCalls |->
                     [st |-> "new", config |-> NoConfig, up |-> 0, result |-> NoResult]]

BatchNextCaller(c) ==
  /\ batchCalls[c].st = "new"
  /\ \A d \in 1..NumBatchCalls : d < c => batchCalls[d].st # "new"

\* execute(request, config)
BatchExecute(c, config) ==
  /\ BatchNextCaller(c)
  /\ IF bypassesBatch(config)
     THEN SetBatch([BatchState EXCEPT
            !.calls[c] = [st |-> "direct", config |-> config, up |-> 0, result |-> NoResult]])
     ELSE SetBatch(scheduleBatchProcessing([BatchState EXCEPT
            !.batch = Append(@, c),
            !.calls[c] = [st |-> "pending", config |-> config, up |-> 0, result |-> NoResult]]))
  /\ UNCHANGED <<now, batchConfig>>

\* the timer set by scheduleBatchProcessing fires
BatchTimerFires ==
  /\ batchTimeout.set
  /\ batchTimeout.left = 0
  /\ SetBatch(processBatch(BatchState))
  /\ UNCHANGED <<now, batchConfig>>

\* the upstream request of a group resolved
BatchUpstreamResolves(first, data) ==
  /\ batchUp[first].st = "pending"
  /\ batchUp' = [batchUp EXCEPT ![first].st = "ok", ![first].result = data]
  /\ batchCalls' = resolveItems(batchCalls, first, data)
  /\ UNCHANGED <<now, batchConfig, batch, batchTimeout>>

\* the upstream request of a group rejected
BatchUpstreamRejects(first, error) ==
  /\ batchUp[first].st = "pending"
  /\ batchUp' = [batchUp EXCEPT ![first].st = "failed", ![first].result = error]
  /\ batchCalls' = rejectItems(batchCalls, first, error)
  /\ UNCHANGED <<now, batchConfig, batch, batchTimeout>>

\* time passes while the timer is pending
BatchTimePasses ==
  /\ batchTimeout.set
  /\ batchTimeout.left > 0
  /\ batchTimeout' = [batchTimeout EXCEPT !.left = @ - 1]
  /\ UNCHANGED <<now, batchConfig, batch, batchUp, batchCalls>>

\* a request that bypassed batching settles
BatchDirectSettles(c, ok) ==
  /\ batchCalls[c].st = "direct"
  /\ batchCalls' = [batchCalls EXCEPT ![c].st = IF ok THEN "resolved" ELSE "rejected"]
  /\ UNCHANGED <<now, batchConfig, batch, batchTimeout, batchUp>>

\* a variant of clear() that leaves the flush timer running
BatchClear_KeepTimer ==
  /\ batchCalls' = [c \in 1..NumBatchCalls |->
       IF c \in SeqToSet(batch)
       THEN [batchCalls[c] EXCEPT !.st = "rejected", !.result = BatchClearedError]
       ELSE batchCalls[c]]
  /\ batch' = <<>>
  /\ UNCHANGED <<now, batchConfig, batchUp, batchTimeout>>

\* clear()
BatchClear ==
  /\ batchTimeout' = NoTimeout
  /\ batchCalls' = [c \in 1..NumBatchCalls |->
       IF c \in SeqToSet(batch)
       THEN [batchCalls[c] EXCEPT !.st = "rejected", !.result = BatchClearedError]
       ELSE batchCalls[c]]
  /\ batch' = <<>>
  /\ UNCHANGED <<now, batchConfig, batchUp>>

(***************************************************************************)
(* RetryHandler                                                            *)
(***************************************************************************)
RetryConfigs == [maxRetries : 0..MaxRetriesBound, retryDelay : 1..MaxRetryDelay]

\* what an attempt can fail with: no response at all, or a response status
AttemptFailures == {"none", "404", "429", "500"}

\* the metadata a response can carry: a set of <<key, value>> entries
Metadatas == {{}, {<<"existingKey", "value">>}}

\* what an attempt can resolve with
RetryResponses == [status : Statuses, metadata : Metadatas]

\* the error object thrown by one attempt
AttemptError(failure, attempt) == [response |-> failure, attempt |-> attempt]

\* defaultRetryCondition(error)
defaultRetryCondition(error) ==
  \/ error.response = "none"
  \/ error.response = "500"
  \/ error.response = "429"

shouldRetry(error) == defaultRetryCondition(error)

RECURSIVE Pow2(_)
Pow2(n) == IF n = 0 THEN 1 ELSE 2 * Pow2(n - 1)

\* a variant without backoff: the same delay before every retry
getDelayTime_Constant(count) == retryConfig.retryDelay

\* getDelayTime(retryCount)
getDelayTime(count) == retryConfig.retryDelay * Pow2(count)

\* a variant that gives up one attempt early
giveUp_OneEarly(count, error) ==
  count + 1 >= retryConfig.maxRetries \/ ~shouldRetry(error)

\* a variant that retries whatever the error is
giveUp_AnyError(count, error) == count = retryConfig.maxRetries

\* retryCount === maxRetries || !shouldRetry(error)
giveUp(count, error) ==
  count = retryConfig.maxRetries \/ ~shouldRetry(error)

RetryInit(configs) ==
  /\ retryConfig \in configs
  /\ retryCount = 0
  /\ retryPc = "idle"
  /\ retryLeft = 0
  /\ retryLog = <<>>
  /\ retryResult = None
  /\ retryAttempts = 0
  /\ retryWaited = <<>>

\* execute(request, config) up to the first await: the first attempt is made
RetryExecute ==
  /\ retryPc = "idle"
  /\ IF retryCount <= retryConfig.maxRetries
     THEN retryPc' = "attempt" /\ retryResult' = None
          /\ retryAttempts' = retryAttempts + 1
     ELSE retryPc' = "rejected" /\ retryResult' = None
          /\ retryAttempts' = retryAttempts
  /\ UNCHANGED <<now, retryConfig, retryCount, retryLeft, retryLog, retryWaited>>

\* the awaited request resolved: return response
RetryAttemptResolves(response) ==
  /\ retryPc = "attempt"
  /\ retryPc' = "resolved"
  /\ retryResult' = response
  /\ UNCHANGED <<now, retryConfig, retryCount, retryLeft, retryLog,
                 retryAttempts, retryWaited>>

\* the awaited request rejected: the catch block up to its throw or its await
RetryAttemptRejects(failure) ==
  /\ retryPc = "attempt"
  /\ LET error == AttemptError(failure, Len(retryLog) + 1)
     IN /\ retryLog' = Append(retryLog, error)
        /\ IF giveUp(retryCount, error)
           THEN /\ retryPc' = "rejected"
                /\ retryResult' = error
                /\ retryLeft' = retryLeft
                /\ retryWaited' = retryWaited
           ELSE /\ retryPc' = "delay"
                /\ retryResult' = retryResult
                /\ retryLeft' = getDelayTime(retryCount)
                /\ retryWaited' = Append(retryWaited, 0)
  /\ UNCHANGED <<now, retryConfig, retryCount, retryAttempts>>

\* time passes while the delay is awaited
RetryTimePasses ==
  /\ retryPc = "delay"
  /\ retryLeft > 0
  /\ retryLeft' = retryLeft - 1
  /\ retryWaited' = [retryWaited EXCEPT ![Len(retryWaited)] = @ + 1]
  /\ UNCHANGED <<now, retryConfig, retryCount, retryPc, retryLog, retryResult,
                 retryAttempts>>

\* the delay is over: retryCount++, the loop condition, the next attempt
RetryDelayElapsed ==
  /\ retryPc = "delay"
  /\ retryLeft = 0
  /\ retryCount' = retryCount + 1
  /\ IF retryCount + 1 <= retryConfig.maxRetries
     THEN retryPc' = "attempt" /\ retryResult' = retryResult
          /\ retryAttempts' = retryAttempts + 1
     ELSE retryPc' = "rejected" /\ retryResult' = retryLog[Len(retryLog)]
          /\ retryAttempts' = retryAttempts
  /\ UNCHANGED <<now, retryConfig, retryLeft, retryLog, retryWaited>>

(***************************************************************************)
(* CoralFuzzy.executeRequest: the order in which the assembled client      *)
(* hands a call from one component to the next.  Each component is taken   *)
(* by its contract towards the pipeline: it either invokes the function it *)
(* was given, or rejects with an error of its own.                         *)
(***************************************************************************)
\* the awaits of executeRequest, outermost first
PipeStages ==
  <<"security", "requestPool", "circuitBreaker", "rateLimit", "compression",
    "adapter", "decompression">>

\* the error a stage rejects with when it does not pass the call on
StageError(stage) == [kind |-> "error", from |-> stage]

\* the position of a stage in the nesting
RECURSIVE StageIndex(_, _)
StageIndex(stage, i) ==
  IF PipeStages[i] = stage THEN i ELSE StageIndex(stage, i + 1)

PipeInit ==
  pipeCalls = [c \in 1..NumPipeCalls |->
                 [pc |-> "new", stages |-> <<>>, result |-> None]]

\* request(config) -> executeRequest(config) up to its first await
PipeRequest(c) ==
  /\ pipeCalls[c].pc = "new"
  /\ pipeCalls' = [pipeCalls EXCEPT ![c] =
       [pc |-> PipeStages[1], stages |-> <<PipeStages[1]>>, result |-> None]]
  /\ UNCHANGED now

\* the stage the call is waiting in completes: validateRequest returns, a
\* handler invokes the function it was given, the adapter's response arrives;
\* the next await is entered, or the response is returned through every layer
PipeStagePasses(c) ==
  /\ pipeCalls[c].pc \in SeqToSet(PipeStages)
  /\ LET i == StageIndex(pipeCalls[c].pc, 1)
     IN pipeCalls' = [pipeCalls EXCEPT ![c] =
          IF i < Len(PipeStages)
          THEN [pc |-> PipeStages[i + 1],
                stages |-> Append(pipeCalls[c].stages, PipeStages[i + 1]),
                result |-> None]
          ELSE [pc |-> "resolved", stages |-> pipeCalls[c].stages,
                result |-> [kind |-> "response", from |-> "adapter"]]]
  /\ UNCHANGED now

\* the stage the call is waiting in rejects: the error passes the enclosing
\* handlers and the catch block (metrics.recordError; throw error)
PipeStageRejects(c) ==
  /\ pipeCalls[c].pc \in SeqToSet(PipeStages)
  /\ pipeCalls' = [pipeCalls EXCEPT ![c] =
       [pc |-> "rejected", stages |-> pipeCalls[c].stages,
        result |-> StageError(pipeCalls[c].pc)]]
  /\ UNCHANGED now

vars == <<now, cbVars, rlVars, poolVars, batchVars, retryVars, pipeVars, focus,
          settled>>

\* no wrapped call failed in the latest step
NoSettle == [comp |-> None, call |-> 0, ok |-> TRUE, value |-> None]

OneOf(S) == {CHOOSE x \in S : TRUE}

InitCB ==
  focus = "cb" /\ settled = NoSettle /\ PipeInit /\ now = 0 /\ CbInit(CbConfigs) /\ RlInit(OneOf(RlConfigs)) /\ PoolInit(OneOf(PoolConfigs))
  /\ BatchInit(OneOf(BatchConfigs)) /\ RetryInit(OneOf(RetryConfigs))

NextCB ==
  \/ \E c \in 1..NumCbCalls : CbExecute(c) /\ UNCHANGED <<rlVars, poolVars, batchVars, retryVars, pipeVars, focus, settled>>
  \/ \E c \in 1..NumCbCalls, r \in Responses : CbRequestResolves(c, r) /\ UNCHANGED <<rlVars, poolVars, batchVars, retryVars, pipeVars, focus, settled>>
  \/ \E c \in 1..NumCbCalls, e \in RequestErrors : CbRequestRejects(c, e) /\ UNCHANGED <<rlVars, poolVars, batchVars, retryVars, pipeVars, focus, settled>>
  \/ \E c \in 1..NumCbCalls : CbTimeoutFires(c) /\ UNCHANGED <<rlVars, poolVars, batchVars, retryVars, pipeVars, focus, settled>>
  \/ CbGetStats /\ UNCHANGED <<rlVars, poolVars, batchVars, retryVars, pipeVars, focus, settled>>
  \/ Tick /\ UNCHANGED <<cbVars, rlVars, poolVars, batchVars, retryVars, pipeVars, focus, settled>>

SpecCB == InitCB /\ [][NextCB]_vars

InitRL ==
  focus = "rl" /\ settled = NoSettle /\ PipeInit /\ now = 0 /\ CbInit(OneOf(CbConfigs)) /\ RlInit(RlConfigs) /\ PoolInit(OneOf(PoolConfigs))
  /\ BatchInit(OneOf(BatchConfigs)) /\ RetryInit(OneOf(RetryConfigs))

NextRL ==
  \/ \E c \in 1..NumRlCalls, p \in 0..MaxPriority : RlExecute(c, p) /\ UNCHANGED <<cbVars, poolVars, batchVars, retryVars, pipeVars, focus, settled>>
  \/ \E c \in 1..NumRlCalls : RlExecuteUnlimited(c) /\ UNCHANGED <<cbVars, poolVars, batchVars, retryVars, pipeVars, focus, settled>>
  \/ RlDelayElapsed /\ UNCHANGED <<cbVars, poolVars, batchVars, retryVars, pipeVars, focus, settled>>
  \/ \E ok \in BOOLEAN : RlRequestSettles(ok) /\ UNCHANGED <<cbVars, poolVars, batchVars, retryVars, pipeVars, focus, settled>>
  \/ \E c \in 1..NumRlCalls, ok \in BOOLEAN : RlUnlimitedSettles(c, ok) /\ UNCHANGED <<cbVars, poolVars, batchVars, retryVars, pipeVars, focus, settled>>
  \/ RlClear /\ UNCHANGED <<cbVars, poolVars, batchVars, retryVars, pipeVars, focus, settled>>
  \/ RlGetStats /\ UNCHANGED <<cbVars, poolVars, batchVars, retryVars, pipeVars, focus, settled>>
  \/ RlTick /\ UNCHANGED <<cbVars, poolVars, batchVars, retryVars, pipeVars, focus, settled>>

SpecRL == InitRL /\ [][NextRL]_vars

\* RateLimitHandler configured, as by default, to let more than one request
\* be in flight
RlWideConfigs == [maxRequests : {2, 3}, perMilliseconds : {1}, maxConcurrent : {2}]

InitRLWide ==
  focus = "rl" /\ settled = NoSettle /\ PipeInit /\ now = 0 /\ CbInit(OneOf(CbConfigs)) /\ RlInit(RlWideConfigs) /\ PoolInit(OneOf(PoolConfigs))
  /\ BatchInit(OneOf(BatchConfigs)) /\ RetryInit(OneOf(RetryConfigs))

SpecRLWide == InitRLWide /\ [][NextRL]_vars

\* RateLimitHandler with callers that cancel while they wait
NextRLCancel ==
  \/ \E c \in 1..NumRlCalls, p \in 0..MaxPriority : RlExecute(c, p) /\ UNCHANGED <<cbVars, poolVars, batchVars, retryVars, pipeVars, focus, settled>>
  \/ \E c \in 1..NumRlCalls : RlSignalFires(c) /\ UNCHANGED <<cbVars, poolVars, batchVars, retryVars, pipeVars, focus, settled>>
  \/ RlDelayElapsed /\ UNCHANGED <<cbVars, poolVars, batchVars, retryVars, pipeVars, focus, settled>>
  \/ \E ok \in BOOLEAN : RlRequestSettles(ok) /\ UNCHANGED <<cbVars, poolVars, batchVars, retryVars, pipeVars, focus, settled>>
  \/ RlClear /\ UNCHANGED <<cbVars, poolVars, batchVars, retryVars, pipeVars, focus, settled>>
  \/ RlTick /\ UNCHANGED <<cbVars, poolVars, batchVars, retryVars, pipeVars, focus, settled>>

SpecRLCancel == InitRL /\ [][NextRLCancel]_vars

\* RateLimitHandler under an unending stream of calls: callers come back with
\* new calls, time passes without bound, the poll timer fires and requests
\* that were invoked settle
NextRLStream ==
  \/ \E c \in 1..NumRlCalls, p \in 0..MaxPriority : RlExecute(c, p) /\ UNCHANGED <<cbVars, poolVars, batchVars, retryVars, pipeVars, focus, settled>>
  \/ \E c \in 1..NumRlCalls : RlNewCaller(c) /\ UNCHANGED <<cbVars, poolVars, batchVars, retryVars, pipeVars, focus, settled>>
  \/ RlDelayElapsed /\ UNCHANGED <<cbVars, poolVars, batchVars, retryVars, pipeVars, focus, settled>>
  \/ \E ok \in BOOLEAN : RlRequestSettles(ok) /\ UNCHANGED <<cbVars, poolVars, batchVars, retryVars, pipeVars, focus, settled>>
  \/ RlTick /\ UNCHANGED <<cbVars, poolVars, batchVars, retryVars, pipeVars, focus, settled>>
  \/ RlClockShift /\ UNCHANGED <<cbVars, poolVars, batchVars, retryVars, pipeVars, focus, settled>>

SpecRLStream ==
  /\ InitRL
  /\ [][NextRLStream]_vars
  /\ WF_vars(RlDelayElapsed /\ UNCHANGED <<cbVars, poolVars, batchVars, retryVars, pipeVars, focus, settled>>)
  /\ WF_vars(\E ok \in BOOLEAN :
               RlRequestSettles(ok) /\ UNCHANGED <<cbVars, poolVars, batchVars, retryVars, pipeVars, focus, settled>>)
  /\ WF_vars((RlTick \/ RlClockShift) /\ UNCHANGED <<cbVars, poolVars, batchVars, retryVars, pipeVars, focus, settled>>)

InitRP ==
  focus = "pool" /\ settled = NoSettle /\ PipeInit /\ now = 0 /\ CbInit(OneOf(CbConfigs)) /\ RlInit(OneOf(RlConfigs)) /\ PoolInit(PoolConfigs)
  /\ BatchInit(OneOf(BatchConfigs)) /\ RetryInit(OneOf(RetryConfigs))

NextRP ==
  \/ \E c \in 1..NumPoolCalls, p \in 0..MaxPriority :
       PoolExecute(c, p) /\ UNCHANGED <<cbVars, rlVars, batchVars, retryVars, pipeVars, focus, settled>>
  \/ \E c \in 1..NumPoolCalls, ok \in BOOLEAN :
       PoolRequestSettles(c, ok) /\ UNCHANGED <<cbVars, rlVars, batchVars, retryVars, pipeVars, focus, settled>>
  \/ PoolStandInSettles /\ UNCHANGED <<cbVars, rlVars, batchVars, retryVars, pipeVars, focus, settled>>
  \/ PoolClear /\ UNCHANGED <<cbVars, rlVars, batchVars, retryVars, pipeVars, focus, settled>>
  \/ PoolGetStats /\ UNCHANGED <<cbVars, rlVars, batchVars, retryVars, pipeVars, focus, settled>>
  \/ Tick /\ UNCHANGED <<cbVars, rlVars, poolVars, batchVars, retryVars, pipeVars, focus, settled>>

SpecRP == InitRP /\ [][NextRP]_vars

\* RequestPool with the progress the runtime gives: time passes, and a request
\* that was invoked settles; whether clients call execute(), clear() or
\* getStats() again is left open
SpecRPLive ==
  /\ SpecRP
  /\ WF_vars(Tick /\ UNCHANGED <<cbVars, rlVars, poolVars, batchVars, retryVars, pipeVars, focus, settled>>)
  /\ WF_vars(\E c \in 1..NumPoolCalls, ok \in BOOLEAN :
               PoolRequestSettles(c, ok) /\ UNCHANGED <<cbVars, rlVars, batchVars, retryVars, pipeVars, focus, settled>>)
  /\ WF_vars(PoolStandInSettles /\ UNCHANGED <<cbVars, rlVars, batchVars, retryVars, pipeVars, focus, settled>>)

\* RateLimitHandler and RequestPool, one at a time, under submissions and
\* completions only: callers call execute(), requests settle either way, the
\* poll timer fires and time passes
InitAcct == InitRL \/ InitRP

AcctCallers == {1, 2, 3}

NextAcct ==
  \/ \E c \in AcctCallers, p \in 0..MaxPriority : focus = "rl" /\ RlExecute(c, p) /\ UNCHANGED <<cbVars, poolVars, batchVars, retryVars, pipeVars, focus, settled>>
  \/ focus = "rl" /\ RlDelayElapsed /\ UNCHANGED <<cbVars, poolVars, batchVars, retryVars, pipeVars, focus, settled>>
  \/ \E ok \in BOOLEAN : focus = "rl" /\ RlRequestSettles(ok) /\ UNCHANGED <<cbVars, poolVars, batchVars, retryVars, pipeVars, focus, settled>>
  \/ focus = "rl" /\ RlTick /\ UNCHANGED <<cbVars, poolVars, batchVars, retryVars, pipeVars, focus, settled>>
  \/ \E c \in AcctCallers, p \in 0..MaxPriority : focus = "pool" /\ PoolExecute(c, p) /\ UNCHANGED <<cbVars, rlVars, batchVars, retryVars, pipeVars, focus, settled>>
  \/ \E c \in AcctCallers, ok \in BOOLEAN : focus = "pool" /\ PoolRequestSettles(c, ok) /\ UNCHANGED <<cbVars, rlVars, batchVars, retryVars, pipeVars, focus, settled>>
  \/ focus = "pool" /\ PoolStandInSettles /\ UNCHANGED <<cbVars, rlVars, batchVars, retryVars, pipeVars, focus, settled>>
  \/ focus = "pool" /\ Tick /\ UNCHANGED <<cbVars, rlVars, poolVars, batchVars, retryVars, pipeVars, focus, settled>>

SpecAcct == InitAcct /\ [][NextAcct]_vars

\* RetryHandler wrapping CircuitBreakerHandler:
\*   retry.execute(cfg => breaker.execute(request, cfg), config)
\* Every attempt of the retry loop is one call of breaker.execute (caller 1 of
\* the breaker); what breaker.execute throws is what the attempt fails with.
\* The breaker's resetTimeout may exceed the first retry delays, as it does
\* with the defaults (60000 ms against 1000 ms).
RcCbConfigs == [failureThreshold : 1..MaxThreshold, resetTimeout : {1, 3}]

\* error.response of what breaker.execute throws, as the retry condition sees it
FailureOf(error) == IF error.response # None THEN error.response ELSE "none"

InitRetryCB ==
  focus = "retrycb" /\ settled = NoSettle /\ PipeInit /\ now = 0 /\ CbInit(RcCbConfigs) /\ RlInit(OneOf(RlConfigs))
  /\ PoolInit(OneOf(PoolConfigs)) /\ BatchInit(OneOf(BatchConfigs))
  /\ RetryInit(RetryConfigs)

\* retry.execute(): the first attempt calls breaker.execute()
RcExecute == RetryExecute /\ CbExecute(1)

\* breaker.execute() threw the circuit-open error: the catch block of the
\* retry loop runs with it
RcAttemptRefused ==
  /\ retryPc = "attempt"
  /\ cbCalls[1] = "idle"
  /\ cbLast.kind = "refused"
  /\ RetryAttemptRejects(FailureOf(cbLast.result))
  /\ UNCHANGED cbVars

\* the request function resolved: the breaker returns the response or throws
\* Error('HTTP <status>'), and the retry loop returns or catches
RcRequestResolves(response) ==
  /\ retryPc = "attempt"
  /\ CbRequestResolves(1, response)
  /\ IF isErrorResponse(response)
     THEN RetryAttemptRejects(FailureOf(Http500Error))
     ELSE RetryAttemptResolves(response)

\* the request function rejected: the breaker rethrows, the retry loop catches
RcRequestRejects(error) ==
  /\ retryPc = "attempt"
  /\ CbRequestRejects(1, error)
  /\ RetryAttemptRejects(FailureOf(error))

\* time passes while the request is in flight
RcTick ==
  /\ retryPc = "attempt"
  /\ cbCalls[1] = "inflight"
  /\ Tick
  /\ UNCHANGED <<cbVars, retryVars>>

\* time passes while the backoff delay is awaited
RcTimePasses ==
  /\ retryPc = "delay"
  /\ retryLeft > 0
  /\ retryLeft' = retryLeft - 1
  /\ retryWaited' = [retryWaited EXCEPT ![Len(retryWaited)] = @ + 1]
  /\ now' = now + 1
  /\ UNCHANGED <<cbVars, retryConfig, retryCount, retryPc, retryLog, retryResult,
                 retryAttempts>>

\* the delay is over: the next attempt calls breaker.execute()
RcDelayElapsed == RetryDelayElapsed /\ CbExecute(1)

NextRetryCB ==
  \/ RcExecute /\ UNCHANGED <<rlVars, poolVars, batchVars, pipeVars, focus, settled>>
  \/ RcAttemptRefused /\ UNCHANGED <<rlVars, poolVars, batchVars, pipeVars, focus, settled>>
  \/ \E response \in Responses : RcRequestResolves(response) /\ UNCHANGED <<rlVars, poolVars, batchVars, pipeVars, focus, settled>>
  \/ \E error \in RequestErrors : RcRequestRejects(error) /\ UNCHANGED <<rlVars, poolVars, batchVars, pipeVars, focus, settled>>
  \/ RcTick /\ UNCHANGED <<rlVars, poolVars, batchVars, pipeVars, focus, settled>>
  \/ RcTimePasses /\ UNCHANGED <<rlVars, poolVars, batchVars, pipeVars, focus, settled>>
  \/ RcDelayElapsed /\ UNCHANGED <<rlVars, poolVars, batchVars, pipeVars, focus, settled>>

SpecRetryCB == InitRetryCB /\ [][NextRetryCB]_vars

InitBatch ==
  focus = "batch" /\ settled = NoSettle /\ PipeInit /\ now = 0 /\ CbInit(OneOf(CbConfigs)) /\ RlInit(OneOf(RlConfigs))
  /\ PoolInit(OneOf(PoolConfigs)) /\ BatchInit(BatchConfigs)
  /\ RetryInit(OneOf(RetryConfigs))

NextBatch ==
  \/ \E c \in 1..NumBatchCalls, config \in RequestConfigs :
       BatchExecute(c, config) /\ UNCHANGED <<cbVars, rlVars, poolVars, retryVars, pipeVars, focus, settled>>
  \/ BatchTimerFires /\ UNCHANGED <<cbVars, rlVars, poolVars, retryVars, pipeVars, focus, settled>>
  \/ \E c \in 1..NumBatchCalls, data \in Aggregates :
       BatchUpstreamResolves(c, data) /\ UNCHANGED <<cbVars, rlVars, poolVars, retryVars, pipeVars, focus, settled>>
  \/ \E c \in 1..NumBatchCalls, error \in UpstreamErrors :
       BatchUpstreamRejects(c, error) /\ UNCHANGED <<cbVars, rlVars, poolVars, retryVars, pipeVars, focus, settled>>
  \/ \E c \in 1..NumBatchCalls, ok \in BOOLEAN :
       BatchDirectSettles(c, ok) /\ UNCHANGED <<cbVars, rlVars, poolVars, retryVars, pipeVars, focus, settled>>
  \/ BatchClear /\ UNCHANGED <<cbVars, rlVars, poolVars, retryVars, pipeVars, focus, settled>>
  \/ BatchTimePasses /\ UNCHANGED <<cbVars, rlVars, poolVars, retryVars, pipeVars, focus, settled>>

SpecBatch == InitBatch /\ [][NextBatch]_vars

\* BatchHandler with the progress the runtime gives: time passes while the
\* flush timer is pending, and a timer that has run out fires (both steps
\* change batchTimeout). The callers submit calls of two keys or a call
\* that is not batched; what the upstream calls answer is left to one value
\* of each kind.
BatchLiveHandlers == [maxBatchSize : {1, 2, 3}, batchDelay : {2},
                      impl : {"first", "second"}]

InitBatchLive ==
  focus = "batch" /\ settled = NoSettle /\ PipeInit /\ now = 0 /\ CbInit(OneOf(CbConfigs)) /\ RlInit(OneOf(RlConfigs))
  /\ PoolInit(OneOf(PoolConfigs)) /\ BatchInit(BatchLiveHandlers)
  /\ RetryInit(OneOf(RetryConfigs))

BatchLiveConfigs ==
  {r \in RequestConfigs : r.id = "1" /\ r.batch /\ r.method \in {"GET", "POST"}}

NextBatchLive ==
  \/ \E c \in DOMAIN batchCalls, config \in BatchLiveConfigs :
       BatchExecute(c, config) /\ UNCHANGED <<cbVars, rlVars, poolVars, retryVars, pipeVars, focus, settled>>
  \/ BatchTimerFires /\ UNCHANGED <<cbVars, rlVars, poolVars, retryVars, pipeVars, focus, settled>>
  \/ \E c \in DOMAIN batchCalls, data \in OneOf(Aggregates) :
       BatchUpstreamResolves(c, data) /\ UNCHANGED <<cbVars, rlVars, poolVars, retryVars, pipeVars, focus, settled>>
  \/ \E c \in DOMAIN batchCalls, error \in OneOf(UpstreamErrors) :
       BatchUpstreamRejects(c, error) /\ UNCHANGED <<cbVars, rlVars, poolVars, retryVars, pipeVars, focus, settled>>
  \/ \E c \in DOMAIN batchCalls : BatchDirectSettles(c, TRUE) /\ UNCHANGED <<cbVars, rlVars, poolVars, retryVars, pipeVars, focus, settled>>
  \/ BatchClear /\ UNCHANGED <<cbVars, rlVars, poolVars, retryVars, pipeVars, focus, settled>>
  \/ BatchTimePasses /\ UNCHANGED <<cbVars, rlVars, poolVars, retryVars, pipeVars, focus, settled>>

SpecBatchLive ==
  /\ InitBatchLive
  /\ [][NextBatchLive]_vars
  /\ WF_batchTimeout(BatchTimePasses /\ UNCHANGED <<cbVars, rlVars, poolVars, retryVars, pipeVars, focus, settled>>)
  /\ WF_batchTimeout(BatchTimerFires /\ UNCHANGED <<cbVars, rlVars, poolVars, retryVars, pipeVars, focus, settled>>)

InitRetry ==
  focus = "retry" /\ settled = NoSettle /\ PipeInit /\ now = 0 /\ CbInit(OneOf(CbConfigs)) /\ RlInit(OneOf(RlConfigs))
  /\ PoolInit(OneOf(PoolConfigs)) /\ BatchInit(OneOf(BatchConfigs))
  /\ RetryInit(RetryConfigs)

NextRetry ==
  \/ RetryExecute /\ UNCHANGED <<cbVars, rlVars, poolVars, batchVars, pipeVars, focus, settled>>
  \/ \E response \in RetryResponses :
       RetryAttemptResolves(response) /\ UNCHANGED <<cbVars, rlVars, poolVars, batchVars, pipeVars, focus, settled>>
  \/ \E failure \in AttemptFailures :
       RetryAttemptRejects(failure) /\ UNCHANGED <<cbVars, rlVars, poolVars, batchVars, pipeVars, focus, settled>>
  \/ RetryTimePasses /\ UNCHANGED <<cbVars, rlVars, poolVars, batchVars, pipeVars, focus, settled>>
  \/ RetryDelayElapsed /\ UNCHANGED <<cbVars, rlVars, poolVars, batchVars, pipeVars, focus, settled>>

SpecRetry == InitRetry /\ [][NextRetry]_vars

\* Each handler on its own, with the failure of the wrapped call that settled
\* in a step kept in the history variable settled
InitErr == InitCB \/ InitRL \/ InitBatch \/ InitRetry

\* the callers, request configs and errors used when every handler is driven
\* with failing requests: two callers, one batchable and one unbatchable
\* config per route, an error the breaker counts and one it does not
ErrCallers == {1, 2}
ErrRequestConfigs ==
  {r \in RequestConfigs : r.id = "1" /\ r.batch /\ r.method \in {"GET", "POST"}}
ErrRequestErrors == {PlainError, Status404Error}

NextErr ==
  \/ \E c \in ErrCallers :
       focus = "cb" /\ CbExecute(c) /\ settled' = NoSettle /\ UNCHANGED <<rlVars, poolVars, batchVars, retryVars, pipeVars, focus>>
  \/ \E c \in ErrCallers, r \in OneOf(Responses) :
       focus = "cb" /\ CbRequestResolves(c, r)
       /\ settled' = NoSettle /\ UNCHANGED <<rlVars, poolVars, batchVars, retryVars, pipeVars, focus>>
  \/ \E c \in ErrCallers, e \in ErrRequestErrors :
       focus = "cb" /\ CbRequestRejects(c, e)
       /\ settled' = [comp |-> "cb", call |-> c, ok |-> FALSE, value |-> e] /\ UNCHANGED <<rlVars, poolVars, batchVars, retryVars, pipeVars, focus>>
  \/ \E c \in ErrCallers :
       focus = "cb" /\ CbTimeoutFires(c) /\ settled' = NoSettle /\ UNCHANGED <<rlVars, poolVars, batchVars, retryVars, pipeVars, focus>>
  \/ focus = "cb" /\ Tick /\ settled' = NoSettle
       /\ UNCHANGED <<cbVars, rlVars, poolVars, batchVars, retryVars, pipeVars, focus>>
  \/ \E c \in ErrCallers, p \in {0} :
       focus = "rl" /\ RlExecute(c, p) /\ settled' = NoSettle /\ UNCHANGED <<cbVars, poolVars, batchVars, retryVars, pipeVars, focus>>
  \/ \E c \in ErrCallers :
       focus = "rl" /\ RlExecuteUnlimited(c) /\ settled' = NoSettle /\ UNCHANGED <<cbVars, poolVars, batchVars, retryVars, pipeVars, focus>>
  \/ focus = "rl" /\ RlDelayElapsed /\ settled' = NoSettle /\ UNCHANGED <<cbVars, poolVars, batchVars, retryVars, pipeVars, focus>>
  \/ \E ok \in BOOLEAN :
       focus = "rl" /\ RlRequestSettles(ok)
       /\ settled' = (IF ok THEN NoSettle
                      ELSE [comp |-> "rl", call |-> rlLoop.cur.id, ok |-> FALSE, value |-> None])
       /\ UNCHANGED <<cbVars, poolVars, batchVars, retryVars, pipeVars, focus>>
  \/ \E c \in ErrCallers, ok \in BOOLEAN :
       focus = "rl" /\ RlUnlimitedSettles(c, ok)
       /\ settled' = (IF ok THEN NoSettle
                      ELSE [comp |-> "rl", call |-> c, ok |-> FALSE, value |-> None])
       /\ UNCHANGED <<cbVars, poolVars, batchVars, retryVars, pipeVars, focus>>
  \/ focus = "rl" /\ RlClear /\ settled' = NoSettle /\ UNCHANGED <<cbVars, poolVars, batchVars, retryVars, pipeVars, focus>>
  \/ focus = "rl" /\ RlTick /\ settled' = NoSettle /\ UNCHANGED <<cbVars, poolVars, batchVars, retryVars, pipeVars, focus>>
  \/ \E c \in ErrCallers, config \in ErrRequestConfigs :
       focus = "batch" /\ BatchExecute(c, config) /\ settled' = NoSettle /\ UNCHANGED <<cbVars, rlVars, poolVars, retryVars, pipeVars, focus>>
  \/ focus = "batch" /\ BatchTimerFires /\ settled' = NoSettle /\ UNCHANGED <<cbVars, rlVars, poolVars, retryVars, pipeVars, focus>>
  \/ \E c \in ErrCallers, data \in OneOf(Aggregates) :
       focus = "batch" /\ BatchUpstreamResolves(c, data)
       /\ settled' = NoSettle /\ UNCHANGED <<cbVars, rlVars, poolVars, retryVars, pipeVars, focus>>
  \/ \E c \in ErrCallers, error \in UpstreamErrors :
       focus = "batch" /\ BatchUpstreamRejects(c, error)
       /\ settled' = [comp |-> "batch", call |-> c, ok |-> FALSE, value |-> error] /\ UNCHANGED <<cbVars, rlVars, poolVars, retryVars, pipeVars, focus>>
  \/ \E c \in ErrCallers, ok \in BOOLEAN :
       focus = "batch" /\ BatchDirectSettles(c, ok)
       /\ settled' = (IF ok THEN NoSettle
                      ELSE [comp |-> "direct", call |-> c, ok |-> FALSE, value |-> None])
       /\ UNCHANGED <<cbVars, rlVars, poolVars, retryVars, pipeVars, focus>>
  \/ focus = "batch" /\ BatchClear /\ settled' = NoSettle /\ UNCHANGED <<cbVars, rlVars, poolVars, retryVars, pipeVars, focus>>
  \/ focus = "batch" /\ BatchTimePasses /\ settled' = NoSettle /\ UNCHANGED <<cbVars, rlVars, poolVars, retryVars, pipeVars, focus>>
  \/ focus = "retry" /\ RetryExecute /\ settled' = NoSettle /\ UNCHANGED <<cbVars, rlVars, poolVars, batchVars, pipeVars, focus>>
  \/ \E response \in OneOf(RetryResponses) :
       focus = "retry" /\ RetryAttemptResolves(response)
       /\ settled' = NoSettle /\ UNCHANGED <<cbVars, rlVars, poolVars, batchVars, pipeVars, focus>>
  \/ \E failure \in AttemptFailures :
       focus = "retry" /\ RetryAttemptRejects(failure)
       /\ settled' = [comp |-> "retry", call |-> retryAttempts, ok |-> FALSE,
                      value |-> AttemptError(failure, retryAttempts)] /\ UNCHANGED <<cbVars, rlVars, poolVars, batchVars, pipeVars, focus>>
  \/ focus = "retry" /\ RetryTimePasses /\ settled' = NoSettle /\ UNCHANGED <<cbVars, rlVars, poolVars, batchVars, pipeVars, focus>>
  \/ focus = "retry" /\ RetryDelayElapsed /\ settled' = NoSettle /\ UNCHANGED <<cbVars, rlVars, poolVars, batchVars, pipeVars, focus>>

SpecErr == InitErr /\ [][NextErr]_vars

\* the callers whose progress is followed; they call with priority 0 or 1
RlLiveCallers == {1, 2, 3}

\* RateLimitHandler with the progress the runtime gives: timers fire, time
\* passes without end, and a request that was invoked settles; whether clients
\* call execute() or clear() again is left open
NextRLLive ==
  \/ \E c \in RlLiveCallers, p \in {0, 1} : RlExecute(c, p) /\ UNCHANGED <<cbVars, poolVars, batchVars, retryVars, pipeVars, focus, settled>>
  \/ \E c \in RlLiveCallers : RlExecuteUnlimited(c) /\ UNCHANGED <<cbVars, poolVars, batchVars, retryVars, pipeVars, focus, settled>>
  \/ RlDelayElapsed /\ UNCHANGED <<cbVars, poolVars, batchVars, retryVars, pipeVars, focus, settled>>
  \/ \E ok \in BOOLEAN : RlRequestSettles(ok) /\ UNCHANGED <<cbVars, poolVars, batchVars, retryVars, pipeVars, focus, settled>>
  \/ \E c \in RlLiveCallers, ok \in BOOLEAN : RlUnlimitedSettles(c, ok) /\ UNCHANGED <<cbVars, poolVars, batchVars, retryVars, pipeVars, focus, settled>>
  \/ RlClear /\ UNCHANGED <<cbVars, poolVars, batchVars, retryVars, pipeVars, focus, settled>>
  \/ RlTick /\ UNCHANGED <<cbVars, poolVars, batchVars, retryVars, pipeVars, focus, settled>>
  \/ RlClockShift /\ UNCHANGED <<cbVars, poolVars, batchVars, retryVars, pipeVars, focus, settled>>

SpecRLLive ==
  /\ InitRL
  /\ [][NextRLLive]_vars
  /\ WF_vars(RlDelayElapsed /\ UNCHANGED <<cbVars, poolVars, batchVars, retryVars, pipeVars, focus, settled>>)
  /\ WF_vars(\E ok \in BOOLEAN : RlRequestSettles(ok) /\ UNCHANGED <<cbVars, poolVars, batchVars, retryVars, pipeVars, focus, settled>>)
  /\ WF_vars(\E c \in RlLiveCallers, ok \in BOOLEAN : RlUnlimitedSettles(c, ok) /\ UNCHANGED <<cbVars, poolVars, batchVars, retryVars, pipeVars, focus, settled>>)
  /\ WF_vars((RlTick \/ RlClockShift) /\ UNCHANGED <<cbVars, poolVars, batchVars, retryVars, pipeVars, focus, settled>>)

InitCB2 ==
  focus = "cb2" /\ settled = NoSettle /\ PipeInit /\ now = 0 /\ Cb2Init(CbConfigs)
  /\ RlInit(OneOf(RlConfigs)) /\ PoolInit(OneOf(PoolConfigs))
  /\ BatchInit(OneOf(BatchConfigs)) /\ RetryInit(OneOf(RetryConfigs))

NextCB2 ==
  \/ \E c \in 1..NumCbCalls :
       Cb2ExecuteRequest(c) /\ UNCHANGED <<rlVars, poolVars, batchVars, retryVars, pipeVars, focus, settled>>
  \/ \E c \in 1..NumCbCalls, r \in Responses :
       Cb2RequestResolves(c, r) /\ UNCHANGED <<rlVars, poolVars, batchVars, retryVars, pipeVars, focus, settled>>
  \/ \E c \in 1..NumCbCalls, e \in RequestErrors :
       Cb2RequestRejects(c, e) /\ UNCHANGED <<rlVars, poolVars, batchVars, retryVars, pipeVars, focus, settled>>
  \/ \E c \in 1..NumCbCalls :
       Cb2TimeoutFires(c) /\ UNCHANGED <<rlVars, poolVars, batchVars, retryVars, pipeVars, focus, settled>>
  \/ Cb2HealthCheck /\ UNCHANGED <<rlVars, poolVars, batchVars, retryVars, pipeVars, focus, settled>>
  \/ Tick /\ UNCHANGED <<cbVars, rlVars, poolVars, batchVars, retryVars, pipeVars, focus, settled>>

SpecCB2 == InitCB2 /\ [][NextCB2]_vars

InitPipe ==
  focus = "client" /\ settled = NoSettle /\ PipeInit /\ now = 0 /\ CbInit(OneOf(CbConfigs))
  /\ RlInit(OneOf(RlConfigs)) /\ PoolInit(OneOf(PoolConfigs))
  /\ BatchInit(OneOf(BatchConfigs)) /\ RetryInit(OneOf(RetryConfigs))

NextPipe ==
  \/ \E c \in 1..NumPipeCalls :
       PipeRequest(c) /\ UNCHANGED <<cbVars, rlVars, poolVars, batchVars, retryVars, focus, settled>>
  \/ \E c \in 1..NumPipeCalls :
       PipeStagePasses(c) /\ UNCHANGED <<cbVars, rlVars, poolVars, batchVars, retryVars, focus, settled>>
  \/ \E c \in 1..NumPipeCalls :
       PipeStageRejects(c) /\ UNCHANGED <<cbVars, rlVars, poolVars, batchVars, retryVars, focus, settled>>

SpecPipe == InitPipe /\ [][NextPipe]_vars

(***************************************************************************)
(* Claims about CircuitBreakerHandler (checked under SpecCB)               *)
(***************************************************************************)
\* the step is execute() being called by some caller
CbExecuteStep == cbLast' # cbLast /\ cbLast'.kind \in {"refused", "invoked"}
\* the step is the settling of a call whose request function failed
CbFailureStep ==
  /\ \E c \in 1..NumCbCalls : cbCalls[c] # "idle" /\ cbCalls'[c] = "idle"
  /\ cbLast'.kind = "rejected"
\* the error is one the default monitoredErrors list lets the breaker count
IsCountedError(e) ==
  \/ e.response \in {"500", "502", "503", "504"}
  \/ e.response = None /\ e.code \in {None, "ECONNREFUSED", "ETIMEDOUT"}

C12_NoCallPendingPastDeadline ==
  \A c \in 1..NumCbCalls : cbCalls[c] # "aborted"

\* C30: failureCount never decreases except by being set to 0 on a transition
\* into CLOSED, every transition into CLOSED sets it to 0 (a successful call
\* while CLOSED leaves it alone), and a breaker that becomes OPEN has recorded
\* the time of the failure in that step; lastFailureTime only ever changes to
\* the current time.
C30_FailureCountReset ==
  [][/\ failureCount' < failureCount
          => (state # "CLOSED" /\ state' = "CLOSED" /\ failureCount' = 0)
     /\ (state # "CLOSED" /\ state' = "CLOSED") => failureCount' = 0
     /\ (state = "CLOSED" /\ cbLast' # cbLast /\ cbLast'.kind = "resolved")
          => failureCount' = failureCount
     /\ (state # "OPEN" /\ state' = "OPEN") => lastFailureTime' = now'
     /\ lastFailureTime' # lastFailureTime => lastFailureTime' = now']_vars

\* a call succeeded while the breaker was CLOSED with a failure on record
C30_Witness ==
  /\ state = "CLOSED"
  /\ failureCount > 0
  /\ cbLast.kind = "resolved"
  /\ cbLast.from = "CLOSED"

\* C31: the breaker leaves OPEN only for HALF_OPEN, only in a step that
\* handles a call attempt (execute), and only when at least resetTimeout has
\* elapsed since lastFailureTime.
C31_OpenLeftOnlyByCallAttempt ==
  [][(state = "OPEN" /\ state' # "OPEN")
       => (/\ state' = "HALF_OPEN"
           /\ CbExecuteStep
           /\ now - lastFailureTime >= cbConfig.resetTimeout)]_vars

\* C32: a read of the observability surface (getStats) leaves state,
\* failureCount, successCount and lastFailureTime as they were.
C32_ReadsChangeNothing ==
  [][(cbLast' # cbLast /\ cbLast'.kind = "read")
       => UNCHANGED <<state, failureCount, successCount, lastFailureTime>>]_vars

\* C38: a call refused because the breaker is OPEN leaves the breaker as it
\* was: state (OPEN), failureCount, lastFailureTime and successCount are
\* unchanged and no request is in flight for it.
C38_RefusalChangesNothing ==
  [][(cbLast' # cbLast /\ cbLast'.kind = "refused")
       => (/\ state = "OPEN"
           /\ UNCHANGED <<state, failureCount, lastFailureTime, successCount>>
           /\ UNCHANGED cbCalls)]_vars

\* a call has just been refused by an OPEN breaker with failures on record
C38_Witness ==
  /\ cbLast.kind = "refused"
  /\ state = "OPEN"
  /\ failureCount >= 1
  /\ now - lastFailureTime < cbConfig.resetTimeout

\* the step settles call c, whose request function resolved with a response:
\* execute either returned it or threw the Error('HTTP <status>') made from it
CbWrappedResolvedStep(c) ==
  /\ cbCalls[c] # "idle"
  /\ cbCalls'[c] = "idle"
  /\ \/ cbLast'.kind = "resolved"
     \/ cbLast'.kind = "rejected" /\ cbLast'.result = Http500Error

\* the step records a success: in HALF_OPEN it counts towards closing or
\* closes the breaker, in any other state it leaves the breaker as it is
CbSuccessRecorded ==
  /\ lastFailureTime' = lastFailureTime
  /\ IF state = "HALF_OPEN"
     THEN \/ /\ state' = "HALF_OPEN"
             /\ successCount' = successCount + 1
             /\ failureCount' = failureCount
          \/ /\ state' = "CLOSED"
             /\ successCount' = 0
             /\ failureCount' = 0
     ELSE UNCHANGED <<state, failureCount, successCount>>

RlLiveAdmissions == SelectSeq(rlAdmitted, LAMBDA a : ~a.cleared)

RlTimes(log) == [i \in DOMAIN log |-> log[i].at]

\* C5 as claimed: at every time the calls admitted in the trailing window
\* (now - perMilliseconds, now] number at most maxRequests.
C5_WindowNeverExceeded == Len(rlAdmitted) <= rlConfig.maxRequests

\* C5 amended: at every time the calls admitted in the trailing window since
\* the most recent clear() number at most maxRequests, and the timestamps the
\* limiter holds, once purged, are exactly the times of those admissions.
C5_RateWindow ==
  /\ Len(RlLiveAdmissions) <= rlConfig.maxRequests
  /\ cleanupTimestamps(requestTimestamps, now, rlConfig.perMilliseconds)
       = RlTimes(RlLiveAdmissions)

\* with maxRequests = 2, two calls admitted and a third held back in the queue
C5_Witness ==
  /\ rlConfig.maxRequests = 2
  /\ Len(RlLiveAdmissions) = 2
  /\ Len(rlAdmitted) = 2
  /\ activeRequests = 0
  /\ queue # <<>>
  /\ rlLoop.pc = "delay"

\* C6: whenever a queued call is admitted, no call left in the queue has a
\* higher priority, or the same priority and an earlier enqueue (callers are
\* numbered in enqueue order).
C6_QueueOrder ==
  [][(rlLoop'.pc = "await" /\ rlLoop' # rlLoop)
     => \A i \in DOMAIN queue' :
          /\ queue'[i].priority <= rlLoop'.cur.priority
          /\ queue'[i].priority = rlLoop'.cur.priority
               => queue'[i].id > rlLoop'.cur.id]_vars

\* a call admitted ahead of an earlier, lower-priority call that still waits
C6_Witness ==
  /\ rlLoop.pc = "await"
  /\ \E i \in DOMAIN queue :
       queue[i].id < rlLoop.cur.id /\ queue[i].priority < rlLoop.cur.priority

\* C14: with maxConcurrent = 1 and all calls submitted back to back, none
\* having completed, the call that was invoked has a priority at least as high
\* as every call still waiting: the highest priority runs first regardless of
\* submission order.
C14_HighestPriorityRunsFirst ==
  (/\ rlConfig.maxConcurrent = 1
   /\ now = 0
   /\ \A c \in 1..NumRlCalls : rlCalls[c] \in {"queued", "inflight"}
   /\ rlLoop.pc = "await")
  => \A i \in DOMAIN queue : queue[i].priority <= rlLoop.cur.priority

\* C15: a call waiting in the queue is admitted in the end, whatever calls
\* arrive after it, provided time passes and admitted calls keep completing.
C15_NoStarvation ==
  \A c \in 1..NumRlCalls : (rlCalls[c] = "queued") ~> (rlCalls[c] # "queued")

\* C16: a call whose cancellation signal fired while it waited is out of the
\* queue, was never invoked and did not resolve.
C16_CancelledWhileQueued ==
  \A c \in rlTokens :
    /\ \A i \in DOMAIN queue : queue[i].id # c
    /\ rlCalls[c] \notin {"queued", "inflight", "resolved"}

\* the maximum queue length a client configures (maxQueueLen)
MaxQueueLen == 1

\* C17: the wait queue never holds more than the configured maximum of
\* entries, a call arriving at a full queue being rejected instead of enqueued.
C17_QueueBounded == Len(queue) <= MaxQueueLen

\* C39: a call submitted with rateLimit === false goes straight to its
\* request function: the step that submits it and the step that settles it
\* leave the queue, activeRequests, the window timestamps and the queue loop
\* as they were, and the call is never an entry of the queue nor the entry the
\* loop has in hand.
C39_BypassUncounted ==
  /\ [][\A c \in 1..NumRlCalls :
          /\ (rlCalls[c] = "new" /\ rlCalls'[c] = "bypass")
               => UNCHANGED <<queue, activeRequests, requestTimestamps,
                              processingQueue, rlLoop, rlAdmitted>>
          /\ (rlCalls[c] = "bypass" /\ rlCalls'[c] # "bypass")
               => (/\ rlCalls'[c] \in {"resolved", "rejected"}
                   /\ UNCHANGED <<queue, activeRequests, requestTimestamps,
                                  processingQueue, rlLoop, rlAdmitted>>)]_vars
  /\ [](\A c \in 1..NumRlCalls :
          rlCalls[c] = "bypass"
            => (/\ \A i \in DOMAIN queue : queue[i].id # c
                /\ rlLoop.cur.id # c))

\* the second caller's request runs past the limiter while the first call is
\* in flight and both caps are reached
C39_Witness ==
  /\ rlCalls[1] = "inflight"
  /\ rlCalls[2] = "bypass"
  /\ activeRequests = rlConfig.maxConcurrent
  /\ Len(cleanupTimestamps(requestTimestamps, now, rlConfig.perMilliseconds))
       = rlConfig.maxRequests

(***************************************************************************)
(* Claims about RateLimitHandler with maxConcurrent above one (checked     *)
(* under SpecRLWide)                                                       *)
(***************************************************************************)
\* the calls whose request function has been invoked and has not settled
RlInFlight == {c \in 1..NumRlCalls : rlCalls[c] = "inflight"}

\* the step is execute() being called by caller c with rate limiting on
RlExecuteStep(c) == rlCalls[c] = "new" /\ rlCalls'[c] \notin {"new", "bypass"}

\* C34: a call that arrives while the in-flight count is below maxConcurrent
\* (and is the true number of calls in flight) and fewer than maxRequests
\* timestamps lie in the window is invoked in that very step, with the
\* current time recorded and the in-flight count incremented.
C34_ImmediateAdmission ==
  [][\A c \in 1..NumRlCalls :
       (/\ RlExecuteStep(c)
        /\ activeRequests = Cardinality(RlInFlight)
        /\ activeRequests < rlConfig.maxConcurrent
        /\ Len(cleanupTimestamps(requestTimestamps, now, rlConfig.perMilliseconds))
              < rlConfig.maxRequests)
         => (/\ rlCalls'[c] = "inflight"
             /\ activeRequests' = activeRequests + 1
             /\ Len(requestTimestamps') > 0
             /\ requestTimestamps'[Len(requestTimestamps')] = now)]_vars

(***************************************************************************)
(* Claims about RequestPool (checked under SpecRP)                         *)
(***************************************************************************)
\* the callers whose request function was invoked and has not settled
PoolInFlight == {c \in 1..NumPoolCalls : poolCalls[c].st = "inflight"}

\* C4: the calls admitted and not yet completed number at most maxConcurrent.
C4_ConcurrencyCap ==
  Cardinality(PoolInFlight) + (IF poolLoop.pc = "await" THEN 1 ELSE 0)
    <= poolConfig.maxConcurrent

\* C10: a caller that was resolved had its own request function invoked (the
\* response it receives was produced by an invocation of its request).
C10_ResolvedOnlyByOwnRequest ==
  \A c \in 1..NumPoolCalls : poolCalls[c].st = "resolved" => poolCalls[c].invoked


(***************************************************************************)
(* Claims about the in-flight accounting of RateLimitHandler and           *)
(* RequestPool (checked under SpecAcct)                                    *)
(***************************************************************************)
\* the promises RequestPool has in flight: the callers' requests and the
\* stand-in request its queue loop awaits
PoolAdmitted ==
  PoolInFlight \cup (IF poolLoop.pc = "await" THEN {StandIn(poolLoop.cur)} ELSE {})

\* C35 (checked under SpecAcct): under submissions and completions the
\* in-flight count of RateLimitHandler equals the number of admitted calls
\* that have not settled, and RequestPool's activeRequests holds exactly the
\* requests in flight; a step changes the count by the number of calls it
\* admits less the number it settles, and a call in flight leaves that state
\* only by settling, resolved or rejected.
C35_InFlightAccounting ==
  /\ [](focus = "rl" => activeRequests = Cardinality(RlInFlight))
  /\ [](focus = "pool" => poolActive = PoolAdmitted)
  /\ [][focus = "rl" =>
          /\ activeRequests' - activeRequests =
                Cardinality({c \in 1..NumRlCalls :
                   rlCalls[c] # "inflight" /\ rlCalls'[c] = "inflight"})
                - Cardinality({c \in 1..NumRlCalls :
                   rlCalls[c] = "inflight" /\ rlCalls'[c] # "inflight"})
          /\ \A c \in 1..NumRlCalls :
               (rlCalls[c] = "inflight" /\ rlCalls'[c] # "inflight")
                 => rlCalls'[c] \in {"resolved", "rejected"}]_vars

\* a call failed and left the count at the one call admitted after it
C35_Witness ==
  /\ focus = "rl"
  /\ activeRequests = 1
  /\ \E c, d \in 1..NumRlCalls : rlCalls[c] = "rejected" /\ rlCalls[d] = "inflight"

(***************************************************************************)
(* Claims about BatchHandler                                               *)
(***************************************************************************)
\* the callers whose entries are handed to an upstream call in this step
BatchSentNow == {c \in 1..NumBatchCalls :
                   batchCalls[c].st # "sent" /\ batchCalls'[c].st = "sent"}

\* method and base path of a config, the trailing item identifier left out
TargetKey(config) == <<config.method, config.path>>

\* C7: GET entries of one flush that have the same method and base path, and
\* differ at most in the trailing item identifier, are served by one and the
\* same invocation of the upstream request function.
C7_OneInvocationPerTargetKey ==
  [][\A c, d \in BatchSentNow :
       (/\ batchCalls'[c].config.method = "GET"
        /\ TargetKey(batchCalls'[c].config) = TargetKey(batchCalls'[d].config))
       => batchCalls'[c].up = batchCalls'[d].up]_vars

\* the callers grouped into the upstream call made for `first`
BatchGroup(first) == {c \in 1..NumBatchCalls : batchCalls[c].up = first}

\* C8: when the upstream call of a group has failed, every entry of the group
\* is rejected with the error of that call, and none is resolved.
C8_AllOrNothing ==
  \A c \in 1..NumBatchCalls :
    (batchCalls[c].up # 0 /\ batchUp[batchCalls[c].up].st = "failed")
    => /\ batchCalls[c].st = "rejected"
       /\ batchCalls[c].result = batchUp[batchCalls[c].up].result

\* a failed upstream call that served two entries
C8_Witness ==
  \E f \in 1..NumBatchCalls :
    /\ batchUp[f].st = "failed"
    /\ Cardinality(BatchGroup(f)) >= 2
    /\ \A c \in BatchGroup(f) : batchCalls[c].st = "rejected"

\* the items of an aggregate whose id, string or number, is the given segment
ItemsWithId(data, segment) == {i \in data.ids : i.v = segment}

\* C18: an entry resolved by a successful upstream call got the item of the
\* aggregate whose id is the trailing segment of its url when there is one,
\* and the whole aggregate otherwise.
C18_FanOutById ==
  \A c \in 1..NumBatchCalls :
    (batchCalls[c].st = "resolved" /\ batchCalls[c].up # 0)
    => LET data == batchUp[batchCalls[c].up].result
       IN IF data.array /\ ItemsWithId(data, batchCalls[c].config.id) # {}
          THEN batchCalls[c].result = [whole |-> FALSE, id |-> batchCalls[c].config.id]
          ELSE batchCalls[c].result.whole

\* the entries flushed in this step that share the target key of entry c
BucketSentNow(c) ==
  {d \in BatchSentNow :
     TargetKey(batchCalls'[d].config) = TargetKey(batchCalls'[c].config)}

\* C19: a bucket (the pending entries of one target key) is flushed only when
\* it has reached maxBatchSize or when the timer started at its first entry
\* has run out, and its flush makes exactly one upstream call.
C19_BucketLifecycle ==
  [][\A c \in BatchSentNow :
       /\ \/ Cardinality(BucketSentNow(c)) = batchConfig.maxBatchSize
          \/ batchTimeout.set /\ batchTimeout.left = 0
       /\ Cardinality({batchCalls'[d].up : d \in BucketSentNow(c)}) = 1]_vars

\* the entries flushed in this step whose url has the base path of entry c,
\* which every reading of the target key tells apart
PathSentNow(c) ==
  {d \in BatchSentNow : batchCalls'[d].config.path = batchCalls'[c].config.path}

\* C36: the entries flushed in one step all belong to one key (entries of
\* different base paths never leave together), and a flush set off by an
\* arriving call, that is by size, takes maxBatchSize entries of that one key.
C36_BucketsPerKey ==
  [][\A c \in BatchSentNow :
       /\ PathSentNow(c) = BatchSentNow
       /\ ~(batchTimeout.set /\ batchTimeout.left = 0)
            => Cardinality(PathSentNow(c)) >= batchConfig.maxBatchSize]_vars

\* the step is caller c's call of execute()
BatchExecuteStep(c) == batchCalls[c].st = "new" /\ batchCalls'[c].st # "new"

\* the config is one the batch handler is to leave alone: a method other than
\* an idempotent read, in whatever letter case, or the batch option off
IsUnbatchable(config) ==
  \/ config.batch = FALSE
  \/ config.method \in {"POST", "post", "PUT", "put", "DELETE", "delete",
                        "PATCH", "patch"}

\* C20: execute() of a call whose method is POST, PUT, DELETE or PATCH in any
\* letter case, or whose batch option is false, hands the call straight to
\* the request function and leaves the pending batch and the timer as they are.
C20_BatchBypass ==
  [][\A c \in 1..NumBatchCalls :
       (BatchExecuteStep(c) /\ IsUnbatchable(batchCalls'[c].config))
       => /\ batchCalls'[c].st = "direct"
          /\ batch' = batch
          /\ batchTimeout' = batchTimeout]_vars

\* the step empties the batch without sending its entries: clear()
BatchClearStep ==
  /\ batch # <<>>
  /\ batch' = <<>>
  /\ \A c \in SeqToSet(batch) : batchCalls'[c].st # "sent"

\* C29: clear() rejects every pending entry with 'Batch handler cleared',
\* cancels the flush timer and invokes no request; the entries that wait are
\* exactly those of the batch, a timer is pending only while entries wait, and
\* a rejected entry stays as it is, so no request is made for it later.
C29_ClearCancelsPending ==
  /\ [](batchTimeout.set => batch # <<>>)
  /\ [](\A c \in 1..NumBatchCalls :
          batchCalls[c].st = "pending" <=> c \in SeqToSet(batch))
  /\ [][BatchClearStep
         => /\ \A c \in SeqToSet(batch) :
                 /\ batchCalls'[c].st = "rejected"
                 /\ batchCalls'[c].result = BatchClearedError
                 /\ batchCalls'[c].up = 0
            /\ ~batchTimeout'.set
            /\ batchUp' = batchUp]_vars
  /\ [][\A c \in 1..NumBatchCalls :
          batchCalls[c].st = "rejected" => batchCalls'[c] = batchCalls[c]]_vars

\* two pending entries were cleared and no request was ever made
C29_Witness ==
  /\ batch = <<>>
  /\ ~batchTimeout.set
  /\ \A f \in 1..NumBatchCalls : batchUp[f].st = "none"
  /\ \A c \in 1..2 :
       /\ batchCalls[c].st = "rejected"
       /\ ~bypassesBatch(batchCalls[c].config)
       /\ batchCalls[c].result = BatchClearedError

\* C40 (checked under SpecBatchLive): after every operation a flush timer
\* is pending exactly when the pending batch is non-empty, the pending batch
\* holds fewer than maxBatchSize entries, an entry leaves the pending batch
\* only by being sent upstream or rejected by clear(), and the pending batch
\* is empty again and again, so that every entry does leave it.
C40_TimerIffPending ==
  /\ [](batchTimeout.set <=> batch # <<>>)
  /\ [](Len(batch) < batchConfig.maxBatchSize)
  /\ [][\A c \in SeqToSet(batch) :
          c \notin SeqToSet(batch')
            => \/ batchCalls'[c].st = "sent"
               \/ /\ batchCalls'[c].st = "rejected"
                  /\ batchCalls'[c].result = BatchClearedError]_vars
  /\ []<>(batch = <<>>)

\* the first entry was flushed by the timer and the second waits with a
\* timer of its own
C40_Witness ==
  /\ batchConfig.maxBatchSize >= 2
  /\ batchCalls[1].st \in {"sent", "resolved"}
  /\ batchUp[1].size = 1
  /\ batch = <<2>>
  /\ batchTimeout.set

(***************************************************************************)
(* Claims about RetryHandler                                               *)
(***************************************************************************)
\* every attempt made so far failed with an error the retry condition accepts
AllRetryable == \A i \in DOMAIN retryLog : shouldRetry(retryLog[i])

\* C9: the request function is never attempted more than maxRetries + 1 times;
\* a call rejected after nothing but retryable failures was attempted exactly
\* maxRetries + 1 times and is rejected with the error of the last attempt.
C9_RetryBudget ==
  /\ Len(retryLog) <= retryConfig.maxRetries + 1
  /\ (retryPc = "rejected" /\ AllRetryable)
     => /\ Len(retryLog) = retryConfig.maxRetries + 1
        /\ retryResult = retryLog[Len(retryLog)]
        /\ retryResult.attempt = retryConfig.maxRetries + 1

\* a call given up after at least one retry, all failures retryable
C9_Witness ==
  /\ retryPc = "rejected"
  /\ AllRetryable
  /\ retryConfig.maxRetries >= 1
  /\ Len(retryLog) >= 2
  /\ retryResult # retryLog[1]

\* the wait that follows the failure of the attempt with index k (from 0)
BackoffAfter(k) == retryConfig.retryDelay * (2 ^ k)

\* C21: the wait after the failure of attempt index k (k from 0) and before the
\* next attempt is exactly retryDelay * 2^k: a wait in progress never exceeds
\* it, a completed wait equals it, attempt k + 1 is made only after k completed
\* waits, and the first attempt is made without any wait.
C21_ExponentialBackoff ==
  /\ \A i \in DOMAIN retryWaited :
       IF i = Len(retryWaited) /\ retryPc = "delay"
       THEN retryWaited[i] <= BackoffAfter(i - 1)
       ELSE retryWaited[i] = BackoffAfter(i - 1)
  /\ retryAttempts > 0 => Len(retryWaited) \in {retryAttempts - 1, retryAttempts}
  /\ retryPc = "attempt" => Len(retryWaited) = retryAttempts - 1
  /\ retryAttempts = 1 /\ retryPc = "attempt" => retryWaited = <<>>

\* a third attempt under way after waits of retryDelay and 2 * retryDelay
C21_Witness ==
  /\ retryPc = "attempt"
  /\ retryAttempts = 3
  /\ retryConfig.retryDelay = 2
  /\ retryWaited = <<2, 4>>

\* C22: the retry loop stops at the first attempt that succeeds or whose error
\* the retry condition rejects: every earlier attempt failed retryably, a
\* success is returned with no further attempt, and a non-retryable error is
\* the caller's error after exactly that attempt with no wait after it.
C22_StopConditions ==
  /\ \A i \in DOMAIN retryLog :
       ~shouldRetry(retryLog[i])
         => /\ i = Len(retryLog)
            /\ retryPc = "rejected"
            /\ retryResult = retryLog[i]
            /\ retryAttempts = i
            /\ Len(retryWaited) = i - 1
  /\ retryPc = "resolved"
       => /\ retryResult \in RetryResponses
          /\ retryAttempts = Len(retryLog) + 1
          /\ Len(retryWaited) = Len(retryLog)
          /\ AllRetryable

\* a call stopped by a 404 on its second attempt with a retry still allowed
C22_Witness ==
  /\ retryAttempts = 2
  /\ retryConfig.maxRetries = 2
  /\ retryPc = "rejected"
  /\ retryLog[2].response = "404"

\* C23: the response returned by a call that succeeded on its (n+1)-th attempt
\* carries the metadata entry retryCount = n, next to the metadata entries the
\* request function returned.
C23_RetryCountInMetadata ==
  retryPc = "resolved"
    => \E kv \in retryResult.metadata :
         kv[1] = "retryCount" /\ kv[2] = retryAttempts - 1

\* C28: activeRequests is never negative, and when no call is in flight (so
\* also once the calls that were in flight at a clear() have settled) it is 0;
\* a call that waits is in the queue, so the calls clear() removed from the
\* queue were rejected.
C28_ClearResetsCounters ==
  /\ activeRequests >= 0
  /\ (\A c \in 1..NumRlCalls : rlCalls[c] # "inflight") => activeRequests = 0
  /\ \A c \in 1..NumRlCalls :
       rlCalls[c] = "queued" => \E i \in DOMAIN queue : queue[i].id = c

(***************************************************************************)
(* Claims about RetryHandler wrapping CircuitBreakerHandler (checked under *)
(* SpecRetryCB)                                                            *)
(***************************************************************************)
\* C37: when an attempt was refused by the open breaker, the retry loop fails
\* the call in its catch block: it does not start a backoff delay.
C37_OpenBreakerShortCircuits ==
  [][(/\ retryPc = "attempt"
      /\ cbCalls[1] = "idle"
      /\ cbLast.kind = "refused"
      /\ retryLog' # retryLog)
       => (retryPc' = "rejected" /\ retryWaited' = retryWaited)]_vars

(***************************************************************************)
(* Claims about RateLimitHandler progress (checked under SpecRLLive)       *)
(***************************************************************************)
\* the call of caller c has been submitted and has not settled
RlPending(c) == rlCalls[c] \in {"queued", "inflight", "bypass"}

Cb2SuccessStep(c) ==
  /\ cbCalls[c] \in {"inflight", "probe"}
  /\ cbCalls'[c] = "idle"
  /\ cbLast'.kind = "resolved"
  /\ cbLast'.call = c

WrappedFailed(comp) == settled.comp = comp /\ ~settled.ok

CanonicalOrder ==
  <<"batchHandler", "circuitBreaker", "rateLimit", "retry", "adapter">>

\* sub occurs within seq in this order, not necessarily contiguously
RECURSIVE IsSubSeq(_, _)
IsSubSeq(sub, seq) ==
  IF sub = <<>> THEN TRUE
  ELSE IF seq = <<>> THEN FALSE
  ELSE IF Head(sub) = Head(seq) THEN IsSubSeq(Tail(sub), Tail(seq))
  ELSE IsSubSeq(sub, Tail(seq))

\* C24: a call that reaches the Transport has passed the Batch Coordinator,
\* the Circuit Breaker, the Admission Controller and the Retry Orchestrator,
\* in this order, before it.
C24_PipelineOrder ==
  \A c \in 1..NumPipeCalls :
    "adapter" \in SeqToSet(pipeCalls[c].stages)
      => IsSubSeq(CanonicalOrder, pipeCalls[c].stages)

(***************************************************************************)
(* Claims about RequestPool progress (checked under SpecRPLive)            *)
(***************************************************************************)
\* C11: a call held back in the queue leaves the queue once the window has
\* advanced far enough for a call to be admitted, whether or not another call
\* is in flight at that moment.
C11_ThrottledCallsProceed ==
  \A c \in 1..NumPoolCalls :
    (poolCalls[c].st = "queued"
       /\ canProcessImmediately(poolActive, poolTimestamps, now))
    ~> (poolCalls[c].st # "queued")

====
